---- MODULE Spec2Model ----
(***************************************************************************)
(* Model of the quiz engine, the quiz-question parser and validator, the   *)
(* conversation history, the document store (chunking, reload, search),    *)
(* user registration and the handlers that drive them (src/telegram_bot.py,*)
(* src/chat_service.py, src/conversation.py, src/document_store.py,        *)
(* src/db.py).                                                             *)
(*                                                                         *)
(* Text is modelled as a sequence of lexical atoms.  A Python str that is  *)
(* an option, a question or an explanation is a sequence of one-character  *)
(* strings (" " is the whitespace character).  A raw model output is a     *)
(* sequence of the atoms                                                   *)
(*    "FENCE" the fence delimiter (three backticks)                        *)
(*    "json"  the language tag                                             *)
(*    " "     whitespace                                                   *)
(*    "x"     a word that is not JSON                                      *)
(*    "D1".. "D8"  the serialized text of the JSON document JsonDocs[d]    *)
(*            (an object {...} or the array [1]: self-delimiting, so two   *)
(*            adjacent documents never read as one).                       *)
(* A Cyrillic letter of a message text is written as its code point,       *)
(* "U+0434" for the letter DE.                                             *)
(***************************************************************************)
EXTENDS Integers, Sequences, FiniteSets, TLC

VARIABLES
    quiz_sessions,   \* table quiz_sessions: user id -> row or NoSession
    interactions,    \* table interactions: number of rows per user
    document_usage,  \* table document_usage: number of rows per user
    tasks,           \* the handler coroutines in flight (concurrent_updates)
    requests,        \* number of updates dispatched so far
    last,            \* history: the step just taken, with the state before it
    run,             \* history: per user, the quiz run since the last quiz-start
    finished,        \* history: per user, Finish/Reset completed, no quiz-start since
    pure,            \* the call of a pure function under check, with its result
    conversation,    \* the ConversationManager: max_messages and _history
    commits,         \* history: per chat, the pairs committed since its last reset
    rows,            \* the quiz_sessions table as SQLite holds it: a set of rows
    document_store,  \* the DocumentStore: its chunks
    root_dir,        \* the documents directory on disk: missing, or its files
    indexed,         \* history: the documents directory as the last reload read it
    clock,           \* int(time.time()): the second, counted from the start
    users,           \* table users: the registration state of each user
    user_data,       \* context.user_data: per user, the documents last listed
    graded,          \* history: per user, answers counted for the stored question
    superseded       \* history: per chat, the requests in flight at a Reset

quizVars == <<quiz_sessions, interactions, document_usage, tasks, requests,
              last, run, finished>>
convVars == <<conversation, commits, rows>>
storeVars == <<document_store, root_dir, indexed, clock>>
userVars == <<users, user_data, graded, superseded>>
vars == <<quizVars, pure, convVars, storeVars, userVars>>

-----------------------------------------------------------------------------
(* Bounds *)

MaxRequests == 3     \* updates dispatched in one behaviour
MaxClock == 1        \* seconds that pass in one behaviour
MaxRawLen == 4       \* atoms in a raw model output
MaxOptions == 5      \* entries of a payload's options list
MaxHistory == 2      \* largest max_messages a ConversationManager is built with
MaxCalls == 5        \* calls made on one ConversationManager or one table
MaxTextLen == 7      \* characters of a text given to the splitter
MaxCap == 3          \* largest max_len the splitter is called with
DefaultMaxLen == 3   \* the max_len reload splits with (1200 in the program,
                     \* scaled to the documents of the model)
MaxChunks == 3       \* chunks of an index given to search
MaxQueryLen == 3     \* characters of an enumerated query
MaxLimit == 2        \* largest limit search is called with

Users == {"u1", "u2"}

\* update.effective_chat.id: each user writes from a private chat.
effective_chat == [u1 |-> "c1", u2 |-> "c2"]
Tasks == {1, 2}

NoSession == [absent |-> TRUE]
Null == [null |-> TRUE]

-----------------------------------------------------------------------------
(* Strings *)

\* str.isspace() over the characters of the model
Whitespace == {" ", "\n"}

RECURSIVE lstrip(_)
lstrip(s) == IF s # <<>> /\ Head(s) \in Whitespace THEN lstrip(Tail(s)) ELSE s

RECURSIVE rstrip(_)
rstrip(s) ==
    IF s # <<>> /\ s[Len(s)] \in Whitespace
    THEN rstrip(SubSeq(s, 1, Len(s) - 1))
    ELSE s

\* str.strip()
strip(s) == rstrip(lstrip(s))

\* [f(x) for x in xs if p(x)] helpers over sequences
RECURSIVE SelectStripped(_)
SelectStripped(xs) ==
    IF xs = <<>> THEN <<>>
    ELSE IF strip(Head(xs)) # <<>>
         THEN <<strip(Head(xs))>> \o SelectStripped(Tail(xs))
         ELSE SelectStripped(Tail(xs))

\* str.split(sep) for a one-atom separator: the segments between separators
RECURSIVE SplitFrom(_, _, _)
SplitFrom(s, sep, acc) ==
    IF s = <<>> THEN <<acc>>
    ELSE IF Head(s) = sep THEN <<acc>> \o SplitFrom(Tail(s), sep, <<>>)
         ELSE SplitFrom(Tail(s), sep, Append(acc, Head(s)))

split(s, sep) == SplitFrom(s, sep, <<>>)

-----------------------------------------------------------------------------
(* JSON documents *)

Fence == "FENCE"
Tag == "json"

Str(c) == <<c>>

Payload(q, opts, ci, ex) ==
    [type |-> "object",
     fields |-> [question |-> q, options |-> opts, correct_index |-> ci,
                 explanation |-> ex]]

\* The documents a raw model output may embed.
JsonDocs ==
    [D1 |-> Payload(<<"q">>, <<Str("a"), Str("b"), Str("c"), Str("d")>>, 0, <<"e">>),
     D2 |-> Payload(<<" ", "q">>, <<<<"a", " ">>, Str("b"), Str("c"), Str("d")>>, 0, <<"e", " ">>),
     D3 |-> Payload(<<"q">>, <<Str(" "), Str("a"), Str("b"), Str("c"), Str("d")>>, 1, <<"e">>),
     D4 |-> [type |-> "array"],
     D5 |-> Payload(<<"q">>, <<Str("a"), Str("b"), Str("c")>>, 0, <<>>),
     D6 |-> Payload(<<"q">>, <<Str("a"), Str("b"), Str("c"), Str("d"), Str("e")>>, 0, <<>>),
     D7 |-> Payload(<<"q">>, <<Str("a"), Str("b"), Str("c"), Str("d")>>, 4, <<>>),
     D8 |-> Payload(<<" ">>, <<Str("a"), Str("b"), Str("c"), Str("d")>>, 3, <<>>)]

DocAtoms == DOMAIN JsonDocs

\* json.loads(candidate): whitespace around exactly one document
json_loads(candidate) ==
    LET core == SelectSeq(candidate, LAMBDA a : a # " ")
    IN  IF Len(core) = 1 /\ core[1] \in DocAtoms
        THEN [ok |-> TRUE, value |-> JsonDocs[core[1]], atom |-> core[1]]
        ELSE [ok |-> FALSE]

\* dict.get(key, default)
Get(fields, key, default) ==
    IF key \in DOMAIN fields THEN fields[key] ELSE default

-----------------------------------------------------------------------------
(* ChatService.__parse_quiz_json *)

\* Variant of FenceCandidate that keeps a leading json tag on the segment.
FenceCandidate_KeepTag(part) == strip(part)

\* One segment of text.split(fence): stripped, a leading json tag cut off.
FenceCandidate(part) ==
    LET p == strip(part)
    IN  IF p # <<>> /\ Head(p) = Tag THEN strip(Tail(p)) ELSE p

\* The candidate list built by lines 174-183.
Candidates(raw_text) ==
    LET text == strip(raw_text)
        parts == split(text, Fence)
    IN  <<text>> \o
        (IF \E i \in 1..Len(text) : text[i] = Fence
         THEN [i \in 1..Len(parts) |-> FenceCandidate(parts[i])]
         ELSE <<>>)

\* The loop of lines 184-189: the first candidate json.loads accepts.
RECURSIVE FirstLoad(_)
FirstLoad(candidates) ==
    IF candidates = <<>> THEN [ok |-> FALSE, error |-> "MalformedQuestion"]
    ELSE IF json_loads(Head(candidates)).ok THEN json_loads(Head(candidates))
         ELSE FirstLoad(Tail(candidates))

_parse_quiz_json(raw_text) == FirstLoad(Candidates(raw_text))

-----------------------------------------------------------------------------
(* ChatService.generate_quiz_question, lines 143-170: validation *)

Failure(kind) == [ok |-> FALSE, error |-> kind]

\* Variant of ValidOptions that takes the options list as the model gave it.
ValidOptions_Unfiltered(data) == Get(data.fields, "options", <<>>)

\* lines 144-146: blank options are dropped, the rest trimmed, then counted
ValidOptions(data) == SelectStripped(Get(data.fields, "options", <<>>))

ValidateQuestion(data, source_paths) ==
    IF data.type # "object" THEN Failure("AttributeError")
    ELSE
    LET options == ValidOptions(data)
        correct_index == Get(data.fields, "correct_index", -1)
        explanation == strip(Get(data.fields, "explanation", <<>>))
        question == strip(Get(data.fields, "question", <<>>))
    IN  IF Len(options) # 4 THEN Failure("ValidationError: options")
        ELSE IF correct_index \notin 0..3
             THEN Failure("ValidationError: correct_index")
        ELSE IF question = <<>> THEN Failure("ValidationError: question")
        ELSE [ok |-> TRUE,
              question |-> [question |-> question, options |-> options,
                            correct_index |-> correct_index,
                            explanation |-> explanation,
                            sources |-> source_paths]]

\* The outcome of the model call: an error of the collaborator, or raw text.
ModelError == <<"ERROR">>

\* generate_quiz_question from the model's reply on: parse, validate.
GenerateFromReply(reply, source_paths) ==
    IF reply = ModelError THEN Failure("ModelCallFailure")
    ELSE LET parsed == _parse_quiz_json(reply)
         IN  IF ~parsed.ok THEN Failure(parsed.error)
             ELSE ValidateQuestion(parsed.value, source_paths)

\* Variant of generate_quiz_question that logs the interaction before it
\* validates, so that a failed attempt leaves a row behind.
generate_quiz_question_LogFirst(reply, source_paths) ==
    LET r == GenerateFromReply(reply, source_paths)
    IN  IF r.ok
        THEN [ok |-> TRUE, question |-> r.question, interactions |-> 1,
              document_usage |-> Len(source_paths)]
        ELSE [ok |-> FALSE, error |-> r.error, interactions |-> 1,
              document_usage |-> 0]

\* generate_quiz_question as the handler sees it: the question or the error,
\* and the rows it logged (lines 155-162 run only after validation passed).
generate_quiz_question(reply, source_paths) ==
    LET r == GenerateFromReply(reply, source_paths)
    IN  IF r.ok
        THEN [ok |-> TRUE, question |-> r.question, interactions |-> 1,
              document_usage |-> Len(source_paths)]
        ELSE [ok |-> FALSE, error |-> r.error, interactions |-> 0,
              document_usage |-> 0]

-----------------------------------------------------------------------------
(* BotDatabase: the quiz_sessions table *)

Row(q, answered, correct) ==
    [question |-> q.question, options |-> q.options,
     correct_index |-> q.correct_index, explanation |-> q.explanation,
     sources |-> q.sources,
     questions_answered |-> answered, correct_answers |-> correct]

\* INSERT ... ON CONFLICT(user_id) DO UPDATE: one row per user, all columns set
set_quiz_session(table, user_id, q, questions_answered, correct_answers) ==
    [table EXCEPT ![user_id] = Row(q, questions_answered, correct_answers)]

\* The SELECT names neither questions_answered nor correct_answers, so
\* row["questions_answered"] raises IndexError and both default to 0.
get_quiz_session(table, user_id) ==
    IF table[user_id] = NoSession THEN NoSession
    ELSE [table[user_id] EXCEPT !.questions_answered = 0, !.correct_answers = 0]

clear_quiz_session(table, user_id) == [table EXCEPT ![user_id] = NoSession]

\* Variant of update_quiz_stats that credits a correct answer twice.
update_quiz_stats_DoubleCredit(table, user_id, answered_delta, correct_delta) ==
    IF table[user_id] = NoSession THEN table
    ELSE [table EXCEPT
            ![user_id].questions_answered = @ + answered_delta,
            ![user_id].correct_answers = @ + 2 * correct_delta]

\* UPDATE ... WHERE user_id = ?: no row, no effect
update_quiz_stats(table, user_id, answered_delta, correct_delta) ==
    IF table[user_id] = NoSession THEN table
    ELSE [table EXCEPT
            ![user_id].questions_answered = @ + answered_delta,
            ![user_id].correct_answers = @ + correct_delta]

\* The table as SQLite holds it: rows with a user_id column.
TableRow(user_id, q, answered, correct) ==
    [user_id |-> user_id, question |-> q.question, options |-> q.options,
     correct_index |-> q.correct_index, explanation |-> q.explanation,
     sources |-> q.sources,
     questions_answered |-> answered, correct_answers |-> correct]

\* Variant of the INSERT of set_quiz_session without its ON CONFLICT clause on
\* a table without the primary key.
sql_set_quiz_session_PlainInsert(rs, user_id, q, answered, correct) ==
    rs \cup {TableRow(user_id, q, answered, correct)}

\* INSERT INTO quiz_sessions ... ON CONFLICT(user_id) DO UPDATE SET ...
sql_set_quiz_session(rs, user_id, q, answered, correct) ==
    IF \E r \in rs : r.user_id = user_id
    THEN {IF r.user_id = user_id
          THEN TableRow(user_id, q, answered, correct) ELSE r : r \in rs}
    ELSE rs \cup {TableRow(user_id, q, answered, correct)}

\* DELETE FROM quiz_sessions WHERE user_id = ?
sql_clear_quiz_session(rs, user_id) == {r \in rs : r.user_id # user_id}

\* UPDATE quiz_sessions SET questions_answered = questions_answered + ?, ...
sql_update_quiz_stats(rs, user_id, answered_delta, correct_delta) ==
    {IF r.user_id = user_id
     THEN [r EXCEPT !.questions_answered = @ + answered_delta,
                    !.correct_answers = @ + correct_delta]
     ELSE r : r \in rs}

-----------------------------------------------------------------------------
(* ConversationManager (src/conversation.py)                                *)

Chats == {"c1", "c2"}

\* defaultdict(deque) without keys
EmptyDict == [c \in {} |-> <<>>]

Msg(role, content) == [role |-> role, content |-> content]

\* __init__: max_messages and an empty defaultdict(deque)
ConversationManager(max_messages) ==
    [max_messages |-> max_messages, _history |-> EmptyDict]

\* self._history[chat_id] on a defaultdict(deque): a missing key is inserted
\* with an empty deque.
Touch(conv, chat_id) ==
    IF chat_id \in DOMAIN conv._history THEN conv
    ELSE [conv EXCEPT !._history =
            [c \in DOMAIN @ \cup {chat_id} |->
                IF c = chat_id THEN <<>> ELSE @[c]]]

\* config.system_prompt
SystemPrompt == <<"system_prompt">>

\* Lines 23-30: context_text, the header and one snippet for each chunk;
\* nothing when there are no chunks.
ContextBlock(contexts) ==
    IF contexts = <<>> THEN <<>>
    ELSE <<"context_header">>
         \o [i \in 1..Len(contexts) |->
                [index |-> i, source |-> contexts[i].path,
                 text |-> strip(contexts[i].text)]]

\* Variant of SystemContent that appends the header of the context block
\* whatever the chunks.
SystemContent_AlwaysHeader(contexts) ==
    SystemPrompt \o <<"context_header">>
        \o [i \in 1..Len(contexts) |->
               [index |-> i, source |-> contexts[i].path,
                text |-> strip(contexts[i].text)]]

\* Line 31: system_prompt + context_text
SystemContent(contexts) == SystemPrompt \o ContextBlock(contexts)

\* Variant of build_messages that puts the new user message before the history.
ConversationManager_build_messages_UserFirst(conv, chat_id, user_text, contexts) ==
    [conversation |-> Touch(conv, chat_id),
     messages |-> <<Msg("system", SystemContent(contexts)), Msg("user", user_text)>>
                  \o Touch(conv, chat_id)._history[chat_id]]

\* build_messages: the messages returned, and the manager after the call.
ConversationManager_build_messages(conv, chat_id, user_text, contexts) ==
    [conversation |-> Touch(conv, chat_id),
     messages |-> <<Msg("system", SystemContent(contexts))>>
                  \o Touch(conv, chat_id)._history[chat_id]
                  \o <<Msg("user", user_text)>>]

\* The deque after the two appends of update.
Appended(conv, chat_id, user_text, assistant_text) ==
    Touch(conv, chat_id)._history[chat_id]
        \o <<Msg("user", user_text), Msg("assistant", assistant_text)>>

\* Variant of update that never evicts.
ConversationManager_update_NoEviction(conv, chat_id, user_text, assistant_text) ==
    [Touch(conv, chat_id) EXCEPT !._history[chat_id] =
        Appended(conv, chat_id, user_text, assistant_text)]

\* Variant of update that evicts one message for each pair in excess.
ConversationManager_update_HalfEviction(conv, chat_id, user_text, assistant_text) ==
    LET history == Appended(conv, chat_id, user_text, assistant_text)
        excess == Len(history) - (conv.max_messages * 2)
    IN  [Touch(conv, chat_id) EXCEPT !._history[chat_id] =
            IF excess > 0
            THEN SubSeq(history, (excess \div 2) + 1, Len(history))
            ELSE history]

\* Variant of update that evicts the newest messages (pop instead of popleft).
ConversationManager_update_EvictNewest(conv, chat_id, user_text, assistant_text) ==
    LET history == Appended(conv, chat_id, user_text, assistant_text)
        excess == Len(history) - (conv.max_messages * 2)
    IN  [Touch(conv, chat_id) EXCEPT !._history[chat_id] =
            IF excess > 0
            THEN SubSeq(history, 1, Len(history) - excess)
            ELSE history]

\* Variant of update that keeps one history for all conversations: the pair
\* is appended to every history there is.
ConversationManager_update_Shared(conv, chat_id, user_text, assistant_text) ==
    [conv EXCEPT !._history =
        [c \in DOMAIN conv._history \cup {chat_id} |->
            (IF c \in DOMAIN conv._history THEN conv._history[c] ELSE <<>>)
                \o <<Msg("user", user_text),
                      Msg("assistant", assistant_text)>>]]

\* update: append the pair, then popleft once for each message in excess.
ConversationManager_update(conv, chat_id, user_text, assistant_text) ==
    LET history == Appended(conv, chat_id, user_text, assistant_text)
        excess == Len(history) - (conv.max_messages * 2)
    IN  [Touch(conv, chat_id) EXCEPT !._history[chat_id] =
            IF excess > 0
            THEN SubSeq(history, excess + 1, Len(history))
            ELSE history]

\* Variant of reset that drops every conversation.
ConversationManager_reset_All(conv, chat_id) ==
    [conv EXCEPT !._history = EmptyDict]

\* reset: self._history.pop(chat_id, None)
ConversationManager_reset(conv, chat_id) ==
    [conv EXCEPT !._history = [c \in DOMAIN @ \ {chat_id} |-> @[c]]]

\* The stored history of a conversation as a list: empty for a missing key.
HistoryOf(conv, chat_id) ==
    IF chat_id \in DOMAIN conv._history THEN conv._history[chat_id] ELSE <<>>

-----------------------------------------------------------------------------
(* DocumentStore (src/document_store.py): the splitter.  A document text is *)
(* a sequence of one-character strings; "\n" is the newline.                *)

\* The leading newlines of s removed.
RECURSIVE DropNewlines(_)
DropNewlines(s) ==
    IF s # <<>> /\ Head(s) = "\n" THEN DropNewlines(Tail(s)) ELSE s

\* re.split(r"\n{2,}", text), line 100: a run of two or more newlines is one
\* separator, a single newline stays inside its paragraph.
RECURSIVE SplitParagraphsFrom(_, _)
SplitParagraphsFrom(s, acc) ==
    IF s = <<>> THEN <<acc>>
    ELSE IF Len(s) >= 2 /\ s[1] = "\n" /\ s[2] = "\n"
         THEN <<acc>> \o SplitParagraphsFrom(DropNewlines(s), <<>>)
         ELSE SplitParagraphsFrom(Tail(s), Append(acc, Head(s)))

SplitParagraphs(text) == SplitParagraphsFrom(text, <<>>)

\* "\n\n".join(buffer), line 108
RECURSIVE JoinParagraphs(_)
JoinParagraphs(buffer) ==
    IF buffer = <<>> THEN <<>>
    ELSE IF Len(buffer) = 1 THEN buffer[1]
         ELSE buffer[1] \o <<"\n", "\n">> \o JoinParagraphs(Tail(buffer))

\* The splitter's locals: buffer, length, and the buffers yielded so far (a
\* yielded chunk is the join of its buffer).
NoBuffer == [buffer |-> <<>>, length |-> 0, out |-> <<>>]

\* emit, lines 104-111, with the "if chunk: yield chunk" of its callers.
emit(st) ==
    IF st.buffer = <<>> THEN st
    ELSE [buffer |-> <<>>, length |-> 0,
          out |-> IF JoinParagraphs(st.buffer) # <<>>
                  THEN Append(st.out, st.buffer)
                  ELSE st.out]

\* Variant of AddPiece that closes the chunk after every piece.
AddPiece_EmitEach(st, piece, max_len) ==
    emit([st EXCEPT !.buffer = Append(@, piece), !.length = @ + Len(piece)])

\* Lines 120-125 and 126-131: append the piece, count its characters, and
\* emit once the count has reached max_len.
AddPiece(st, piece, max_len) ==
    LET added == [st EXCEPT !.buffer = Append(@, piece),
                            !.length = @ + Len(piece)]
    IN  IF added.length >= max_len THEN emit(added) ELSE added

\* Variant of Rest in which slicing leaves the paragraph whole.
Rest_Whole(paragraph, max_len) == paragraph

\* paragraph[max_len:], line 119: what a pass of the hard-slice loop leaves.
Rest(paragraph, max_len) == SubSeq(paragraph, max_len + 1, Len(paragraph))

\* Variant of AddParagraph that keeps only the first max_len characters of
\* a paragraph.
AddParagraph_Truncate(st, paragraph, max_len) ==
    AddPiece(st,
             IF Len(paragraph) > max_len THEN SubSeq(paragraph, 1, max_len)
                                         ELSE paragraph,
             max_len)

\* Lines 117-131: a paragraph longer than max_len is sliced into heads of
\* max_len characters; what remains is appended as the last piece.
RECURSIVE AddParagraph(_, _, _)
AddParagraph(st, paragraph, max_len) ==
    IF Len(paragraph) > max_len
    THEN AddParagraph(AddPiece(st, SubSeq(paragraph, 1, max_len), max_len),
                      SubSeq(paragraph, max_len + 1, Len(paragraph)), max_len)
    ELSE AddPiece(st, paragraph, max_len)

\* Lines 113-131: the loop over the paragraphs; blank ones are skipped.
RECURSIVE SplitLoop(_, _, _)
SplitLoop(st, paragraphs, max_len) ==
    IF paragraphs = <<>> THEN st
    ELSE LET paragraph == strip(Head(paragraphs))
         IN  IF paragraph = <<>>
             THEN SplitLoop(st, Tail(paragraphs), max_len)
             ELSE SplitLoop(AddParagraph(st, paragraph, max_len),
                            Tail(paragraphs), max_len)

\* The buffers of the chunks _split_into_chunks yields, in emission order;
\* lines 132-135 emit what is left after the last paragraph.
SplitBuffers(text, max_len) ==
    emit(SplitLoop(NoBuffer, SplitParagraphs(text), max_len)).out

\* DocumentStore._split_into_chunks, lines 98-135
_split_into_chunks(text, max_len) ==
    LET buffers == SplitBuffers(text, max_len)
    IN  [i \in 1..Len(buffers) |-> JoinParagraphs(buffers[i])]

-----------------------------------------------------------------------------
(* DocumentStore: the documents directory, reload, search, sample_chunks.   *)

\* The names files are given from outside, in the ascending order sorted()
\* gives them.
ListedPaths == <<"a.txt", "b.md", "c.PDF", "c.txt", "d.doc", "e">>

\* Path.suffix of a name given from outside.
ListedSuffix(path) ==
    CASE path \in {"a.txt", "c.txt", "x/c.txt"} -> ".txt"
      [] path = "b.md" -> ".md"
      [] path = "c.PDF" -> ".PDF"
      [] path = "d.doc" -> ".doc"
      [] OTHER -> ""

\* Path.stem of a name given from outside.
ListedStem(path) ==
    CASE path = "a.txt" -> "a"
      [] path = "b.md" -> "b"
      [] path \in {"c.PDF", "c.txt", "x/c.txt"} -> "c"
      [] path = "d.doc" -> "d"
      [] OTHER -> path

\* The name an upload at the given second gives a file whose name is taken:
\* stem, "_", the second, suffix.
Stamped(path, seconds) ==
    ListedStem(path) \o "_" \o ToString(seconds) \o ListedSuffix(path)

\* The seconds of a behaviour.
Seconds == 0..MaxClock

\* The names given from outside, as a set.
ListedNames == {ListedPaths[i] : i \in 1..Len(ListedPaths)}

\* The stamped names of the model with the name and the second they come
\* from.
StampedNames ==
    {[path |-> Stamped(p, seconds), of |-> p, seconds |-> seconds] :
        p \in ListedNames, seconds \in Seconds}

\* Path.suffix of each path of the model.
suffix(path) ==
    IF \E sn \in StampedNames : sn.path = path
    THEN ListedSuffix((CHOOSE sn \in StampedNames : sn.path = path).of)
    ELSE ListedSuffix(path)

\* Path.stem of each path of the model.
stem(path) ==
    IF \E sn \in StampedNames : sn.path = path
    THEN LET sn == CHOOSE x \in StampedNames : x.path = path
         IN  ListedStem(sn.of) \o "_" \o ToString(sn.seconds)
    ELSE ListedStem(path)

RECURSIVE Concat(_)
Concat(seqs) == IF seqs = <<>> THEN <<>> ELSE Head(seqs) \o Concat(Tail(seqs))

\* The names given from outside that have the stem, in ascending order.
WithStem(st) == SelectSeq(ListedPaths, LAMBDA p : ListedStem(p) = st)

\* The paths of the model, in the ascending order sorted() gives them: "."
\* sorts before "_", so the names with a stem come before the stamped ones,
\* and these in the order of their seconds.
PathsAscending ==
    Concat([k \in 1..5 |->
               LET st == <<"a", "b", "c", "d", "e">>[k]
               IN  WithStem(st)
                   \o Concat([n \in 1..(MaxClock + 1) |->
                                 [i \in 1..Len(WithStem(st)) |->
                                     Stamped(WithStem(st)[i], n - 1)]])])

\* str.lower() of a suffix.
lower_suffix(s) == IF s = ".PDF" THEN ".pdf" ELSE s

SUPPORTED_EXTENSIONS == {".txt", ".md", ".rtf", ".pdf"}

\* A directory that does not exist.
MissingRoot == [exists |-> FALSE, entries |-> {}]

\* An existing directory with the given entries.  An entry has a path, is a
\* regular file or a directory, can be read or fails when read, and has a
\* text (for a PDF: the text PdfReader extracts from its pages).
Directory(entries) == [exists |-> TRUE, entries |-> entries]

Entry(path, is_file, readable, text) ==
    [path |-> path, is_file |-> is_file, readable |-> readable, text |-> text]

\* A score is kept as the fraction num/den of the division of line 149.
Fraction(num, den) == [num |-> num, den |-> den]

\* The default score 0.0 of a DocumentChunk.
ZeroScore == Fraction(0, 1)

\* a < b for two scores
ScoreLess(a, b) == a.num * b.den < b.num * a.den

\* DocumentChunk(path=..., text=...), lines 20-24
DocumentChunk(path, text) == [path |-> path, text |-> text, score |-> ZeroScore]

\* DocumentStore._iter_files, lines 53-58
_iter_files(root) ==
    IF ~root.exists THEN {}
    ELSE {e \in root.entries :
             e.is_file /\ lower_suffix(suffix(e.path)) \in SUPPORTED_EXTENSIONS}

\* sorted(files), line 42: ascending by path
sorted(files) ==
    LET present == SelectSeq(PathsAscending,
                             LAMBDA p : \E e \in files : e.path = p)
    IN  [i \in 1..Len(present) |-> CHOOSE e \in files : e.path = present[i]]

\* DocumentStore._read_pdf, lines 69-96: a reader that fails gives "".
_read_pdf(file) == IF file.readable THEN file.text ELSE <<>>

\* Variant of _read_file_text that returns what could be read of a failing
\* file.
_read_file_text_Partial(file) == [none |-> FALSE, text |-> file.text]

\* DocumentStore._read_file_text, lines 60-67: None when reading raises.
_read_file_text(file) ==
    IF lower_suffix(suffix(file.path)) = ".pdf"
    THEN [none |-> FALSE, text |-> _read_pdf(file)]
    ELSE IF file.readable THEN [none |-> FALSE, text |-> file.text]
         ELSE [none |-> TRUE, text |-> <<>>]

\* Lines 43-51: the chunks one file adds to the list.
FileChunks(file, max_len) ==
    LET raw_text == _read_file_text(file)
    IN  IF raw_text.none THEN <<>>
        ELSE LET texts == SelectStripped(_split_into_chunks(raw_text.text, max_len))
             IN  [i \in 1..Len(texts) |-> DocumentChunk(file.path, texts[i])]

\* Variant of reload_files that stops after the first file.
reload_files_StopEarly(chunks, files, max_len) ==
    IF files = <<>> THEN chunks
    ELSE chunks \o FileChunks(Head(files), max_len)

\* Lines 42-51: the loop over the sorted files.
RECURSIVE reload_files(_, _, _)
reload_files(chunks, files, max_len) ==
    IF files = <<>> THEN chunks
    ELSE reload_files(chunks \o FileChunks(Head(files), max_len),
                      Tail(files), max_len)

\* Variant of reload that keeps the chunks it already holds.
DocumentStore_reload_NoClear(store, root, max_len) ==
    [store EXCEPT !.chunks =
        reload_files(store.chunks, sorted(_iter_files(root)), max_len)]

\* DocumentStore.reload, lines 40-51
DocumentStore_reload(store, root, max_len) ==
    [store EXCEPT !.chunks =
        reload_files(<<>>, sorted(_iter_files(root)), max_len)]

\* DocumentStore.__init__, lines 34-38
DocumentStore(root, max_len) ==
    IF root.exists
    THEN DocumentStore_reload([chunks |-> <<>>], root, max_len)
    ELSE [chunks |-> <<>>]

\* str.lower() over the characters of the model
lower_char(c) ==
    IF c = "A" THEN "a" ELSE IF c = "B" THEN "b"
    ELSE IF c = "U+0414" THEN "U+0434" ELSE IF c = "U+0410" THEN "U+0430"
    ELSE c

lower(s) == [i \in 1..Len(s) |-> lower_char(s[i])]

\* The characters \w matches: letters, digits and the underscore.
WordChars == {"a", "b", "A", "B", "1", "_"}

\* re.findall(r"\w+", s), line 140: the maximal runs of word characters.
RECURSIVE FindWordsFrom(_, _)
FindWordsFrom(s, acc) ==
    IF s = <<>> THEN IF acc = <<>> THEN <<>> ELSE <<acc>>
    ELSE IF Head(s) \in WordChars
         THEN FindWordsFrom(Tail(s), Append(acc, Head(s)))
         ELSE (IF acc = <<>> THEN <<>> ELSE <<acc>>)
              \o FindWordsFrom(Tail(s), <<>>)

findall_words(s) == FindWordsFrom(s, <<>>)

\* Line 140: the words of the lower-cased query longer than 2 characters.
QueryWords(query) ==
    SelectSeq(findall_words(lower(query)), LAMBDA w : Len(w) > 2)

\* str.count(word): the occurrences of word in s that do not overlap,
\* counted from the left.
RECURSIVE count(_, _)
count(s, word) ==
    IF Len(s) < Len(word) THEN 0
    ELSE IF SubSeq(s, 1, Len(word)) = word
         THEN 1 + count(SubSeq(s, Len(word) + 1, Len(s)), word)
         ELSE count(Tail(s), word)

\* Line 146: sum(text_lower.count(word) for word in words)
RECURSIVE Matches(_, _)
Matches(text_lower, words) ==
    IF words = <<>> THEN 0
    ELSE count(text_lower, Head(words)) + Matches(text_lower, Tail(words))

\* Variant of ScoredCopy that writes the score into the stored chunk.
ScoredCopy_InPlace(chunks, i, score) ==
    [chunks |-> [chunks EXCEPT ![i].score = score],
     item |-> [chunks[i] EXCEPT !.score = score]]

\* Line 150: the scored entry is a new DocumentChunk with the path and the
\* text of the stored chunk, which is left as it is.
ScoredCopy(chunks, i, score) ==
    [chunks |-> chunks,
     item |-> [path |-> chunks[i].path, text |-> chunks[i].text,
               score |-> score]]

\* Lines 143-150: the loop over the chunks, from chunk i on.
RECURSIVE ScoreLoop(_, _, _, _)
ScoreLoop(chunks, i, words, scored) ==
    IF i > Len(chunks) THEN [chunks |-> chunks, scored |-> scored]
    ELSE LET matches == Matches(lower(chunks[i].text), words)
         IN  IF matches = 0 THEN ScoreLoop(chunks, i + 1, words, scored)
             ELSE LET copy == ScoredCopy(chunks, i, Fraction(matches, Len(words)))
                  IN  ScoreLoop(copy.chunks, i + 1, words,
                                Append(scored, copy.item))

\* Variant of InsertByScore that puts an item before the items of its score.
RECURSIVE InsertByScore_BeforeEqual(_, _)
InsertByScore_BeforeEqual(seq, item) ==
    IF seq = <<>> THEN <<item>>
    ELSE IF ~ScoreLess(item.score, Head(seq).score) THEN <<item>> \o seq
         ELSE <<Head(seq)>> \o InsertByScore_BeforeEqual(Tail(seq), item)

\* The place of an item in a list sorted by descending score: after every
\* item whose score is not lower, as the stable sort of line 151 leaves it.
RECURSIVE InsertByScore(_, _)
InsertByScore(seq, item) ==
    IF seq = <<>> THEN <<item>>
    ELSE IF ScoreLess(Head(seq).score, item.score) THEN <<item>> \o seq
         ELSE <<Head(seq)>> \o InsertByScore(Tail(seq), item)

\* scored.sort(key=lambda item: item.score, reverse=True), line 151
RECURSIVE sort_by_score(_)
sort_by_score(scored) ==
    IF scored = <<>> THEN <<>>
    ELSE InsertByScore(sort_by_score(SubSeq(scored, 1, Len(scored) - 1)),
                       scored[Len(scored)])

\* seq[:limit], line 152
SliceTo(seq, limit) ==
    IF limit >= 0
    THEN SubSeq(seq, 1, IF limit < Len(seq) THEN limit ELSE Len(seq))
    ELSE SubSeq(seq, 1, Len(seq) + limit)

\* DocumentStore.search, lines 137-152: the store after the call and the
\* list returned.
DocumentStore_search(store, query, limit) ==
    IF strip(query) = <<>> \/ store.chunks = <<>>
    THEN [store |-> store, result |-> <<>>]
    ELSE LET words == QueryWords(query)
         IN  IF words = <<>> THEN [store |-> store, result |-> <<>>]
             ELSE LET loop == ScoreLoop(store.chunks, 1, words, <<>>)
                  IN  [store |-> [store EXCEPT !.chunks = loop.chunks],
                       result |-> SliceTo(sort_by_score(loop.scored), limit)]

\* The lists of k different positions of 1..n, in every order.
Arrangements(n, k) ==
    {p \in [1..k -> 1..n] : \A i, j \in 1..k : i # j => p[i] # p[j]}

\* DocumentStore.sample_chunks, lines 171-174: every list random.sample can
\* return; its elements are the stored chunks.
DocumentStore_sample_chunks(store, sample_count) ==
    IF store.chunks = <<>> THEN {<<>>}
    ELSE LET k == IF sample_count < Len(store.chunks) THEN sample_count
                  ELSE Len(store.chunks)
         IN  {[i \in 1..k |-> store.chunks[p[i]]] :
                 p \in Arrangements(Len(store.chunks), k)}

\* DocumentStore.list_files, lines 168-169
DocumentStore_list_files(store) ==
    SelectSeq(PathsAscending,
              LAMBDA p : \E i \in 1..Len(store.chunks) : store.chunks[i].path = p)

\* [chunk.path for chunk in contexts]
PathsOf(contexts) == [i \in 1..Len(contexts) |-> contexts[i].path]

-----------------------------------------------------------------------------
(* The model's replies to the quiz prompt.                                  *)

\* sample_chunks(2), chat_service.py line 111
SampleCount == 2

\* search(text), chat_service.py lines 51 and 70: the default limit of
\* document_store.py line 137
DefaultLimit == 3

\* What lm_client.chat may return for the quiz prompt.
ModelReplies ==
    {ModelError,
     <<"x">>,
     <<"D1">>,
     <<Fence, Tag, "D2", Fence>>,
     <<"D3">>,
     <<"D4">>,
     <<"x", Fence, "D5", Fence>>,
     <<"D6">>,
     <<"D7">>,
     <<"D8">>}

ChosenIndices == -1..4

-----------------------------------------------------------------------------
(* Handlers.  Each task is one handler coroutine; a step is the code        *)
(* between two awaits, which the event loop runs without interleaving.      *)

IdleTask ==
    [pc |-> "idle", user |-> "-", handler |-> "-", session |-> NoSession,
     correct_delta |-> 0, reported |-> <<0, 0>>, existing |-> NoSession,
     source_paths |-> <<>>, text |-> [chat |-> "-", n |-> 0],
     system |-> <<>>, searched |-> <<>>,
     upload |-> [path |-> "-", text |-> <<>>]]

\* What the database, the conversation and the index held for user u before
\* a step.
Snapshot(u) ==
    [session |-> quiz_sessions[u], interactions |-> interactions[u],
     document_usage |-> document_usage[u],
     history |-> HistoryOf(conversation, effective_chat[u]),
     index |-> document_store.chunks]

Event(op, t, u, chosen_index, reply) ==
    [op |-> op, task |-> t, user |-> u, chosen_index |-> chosen_index,
     reply |-> reply, before |-> Snapshot(u)]

NoReply == [kind |-> "none"]

\* Another handler of the same user is between two of its awaits.
Busy(u) == \E t \in Tasks : tasks[t].pc # "idle" /\ tasks[t].user = u

NoRun == [phase |-> "none", answered |-> 0, correct |-> 0]

\* A quiz-start of user u is still on its way to its first question.
Starting(u) ==
    \E t \in Tasks : tasks[t].handler = "start_quiz" /\ tasks[t].user = u

\* Finish or Reset completed for u; a quiz-start still in flight counts as
\* the user's next quiz-start.
Completed(u) == [finished EXCEPT ![u] = ~Starting(u)]

\* A new update arrives for user u while requests remain; the application
\* starts a coroutine for it (idle coroutines are interchangeable: the first).
Arrives(t, u) ==
    /\ tasks[t].pc = "idle"
    /\ \A other \in Tasks : tasks[other].pc = "idle" => t <= other
    /\ requests < MaxRequests
    /\ requests' = requests + 1

InitHandlers ==
    /\ quiz_sessions = [u \in Users |-> NoSession]
    /\ interactions = [u \in Users |-> 0]
    /\ document_usage = [u \in Users |-> 0]
    /\ tasks = [t \in Tasks |-> IdleTask]
    /\ requests = 0
    /\ last = [op |-> "init", task |-> 0, user |-> "-", chosen_index |-> 0,
               reply |-> NoReply,
               before |-> [session |-> NoSession, interactions |-> 0,
                           document_usage |-> 0, history |-> <<>>,
                           index |-> <<>>]]
    /\ run = [u \in Users |-> NoRun]
    /\ finished = [u \in Users |-> FALSE]

\* The documents directory the bot is started on: two short documents.
QuizCorpus ==
    Directory({Entry("a.txt", TRUE, TRUE, <<"a", "a", "a">>),
               Entry("b.md", TRUE, TRUE, <<"b", "b", "b">>)})

\* build_application, line 784: the DocumentStore is loaded from the
\* documents directory as it is when the bot starts.
InitStore(root) ==
    /\ root_dir = root
    /\ document_store = DocumentStore(root, DefaultMaxLen)
    /\ indexed = root
    /\ clock = 0

\* BotUser, src/db.py lines 20-35: the columns the handlers read.
BotUser(state) == [state |-> state]

\* Variant of is_active that takes every user who has given consent for a
\* registered one.
is_active_Consented(bot_user) == bot_user.state # "pending_consent"

\* BotUser.is_active, lines 32-34
is_active(bot_user) == bot_user.state = "active"

\* context.user_data of a user who has not listed the documents.
NoUserData == [doc_options |-> <<>>]

\* The users table with every user in the given registration state, and no
\* user_data (it lives in memory and starts empty).
InitUsers(state) ==
    /\ users = [u \in Users |-> BotUser(state)]
    /\ user_data = [u \in Users |-> NoUserData]
    /\ graded = [u \in Users |-> 0]
    /\ superseded = [c \in Chats |-> {}]

\* main: the handlers' state, one ConversationManager, an empty table, the
\* DocumentStore loaded from the documents directory, and registered users.
InitQuiz ==
    /\ InitUsers("active")
    /\ InitHandlers
    /\ conversation = ConversationManager(MaxHistory)
    /\ commits = [c \in Chats |-> <<>>]
    /\ rows = {}
    /\ InitStore(QuizCorpus)

\* start_quiz, lines 286-301, for a registered user: clear the session, then
\* await the notice.
start_quiz(t, u) ==
    /\ Arrives(t, u)
    /\ is_active(users[u])
    /\ quiz_sessions' = clear_quiz_session(quiz_sessions, u)
    /\ graded' = [graded EXCEPT ![u] = 0]
    /\ tasks' = [tasks EXCEPT ![t] =
                    [IdleTask EXCEPT !.pc = "send_question", !.user = u,
                                     !.handler = "start_quiz"]]
    /\ run' = [run EXCEPT ![u] =
                  [NoRun EXCEPT !.phase = IF Busy(u) THEN "none" ELSE "running"]]
    /\ finished' = [finished EXCEPT ![u] = FALSE]
    /\ last' = Event("start_quiz", t, u, 0, NoReply)
    /\ UNCHANGED <<interactions, document_usage, pure, convVars, storeVars,
                   users, user_data, superseded>>

\* The requests of chat c that a handler has received and not yet committed.
InFlight(c) ==
    {tasks[t].text : t \in {x \in Tasks : tasks[x].pc # "idle"
                                          /\ tasks[x].text.chat = c}}

\* reset, lines 211-222: clears the conversation and the quiz session in one
\* step.
reset(t, u) ==
    /\ Arrives(t, u)
    /\ quiz_sessions' = clear_quiz_session(quiz_sessions, u)
    /\ run' = [run EXCEPT ![u] = NoRun]
    /\ finished' = Completed(u)
    /\ conversation' = ConversationManager_reset(conversation, effective_chat[u])
    /\ commits' = [commits EXCEPT ![effective_chat[u]] = <<>>]
    /\ graded' = [graded EXCEPT ![u] = 0]
    /\ superseded' = [superseded EXCEPT ![effective_chat[u]] =
                         @ \cup InFlight(effective_chat[u])]
    /\ last' = Event("reset", t, u, 0, NoReply)
    /\ UNCHANGED <<interactions, document_usage, tasks, pure, rows, storeVars,
                   users, user_data>>

\* _send_quiz_question, lines 529-535, and generate_quiz_question up to the
\* await of the model call: read the existing session, sample the sources.
send_quiz_question_begin(t) ==
    /\ tasks[t].pc = "send_question"
    /\ \E contexts \in DocumentStore_sample_chunks(document_store, SampleCount) :
          tasks' = [tasks EXCEPT
                      ![t].pc = "model_call",
                      ![t].existing = get_quiz_session(quiz_sessions, tasks[t].user),
                      ![t].source_paths = PathsOf(contexts)]
    /\ last' = Event("generate_begin", t, tasks[t].user, 0, NoReply)
    /\ UNCHANGED <<quiz_sessions, interactions, document_usage, requests, run,
                   finished, pure, convVars, storeVars, userVars>>

\* The counters _send_quiz_question passes on, lines 556-557.
CarriedAnswered(existing) ==
    IF existing # NoSession THEN existing.questions_answered ELSE 0

CarriedCorrect(existing) ==
    IF existing # NoSession THEN existing.correct_answers ELSE 0

\* The model call returns: generate_quiz_question lines 143-170, then
\* _send_quiz_question lines 536-558.
send_quiz_question_end(t) ==
    /\ tasks[t].pc = "model_call"
    /\ \E reply \in ModelReplies :
          LET u == tasks[t].user
              result == generate_quiz_question(reply, tasks[t].source_paths)
          IN  /\ interactions' =
                    [interactions EXCEPT ![u] = @ + result.interactions]
              /\ document_usage' =
                    [document_usage EXCEPT ![u] = @ + result.document_usage]
              /\ quiz_sessions' =
                    IF result.ok
                    THEN set_quiz_session(quiz_sessions, u, result.question,
                                          CarriedAnswered(tasks[t].existing),
                                          CarriedCorrect(tasks[t].existing))
                    ELSE quiz_sessions
              /\ run' = IF result.ok THEN run ELSE [run EXCEPT ![u] = NoRun]
              /\ graded' = IF result.ok THEN [graded EXCEPT ![u] = 0]
                                        ELSE graded
              /\ last' = Event("generate_end", t, u, 0,
                               IF result.ok
                               THEN [kind |-> "question", ok |-> TRUE,
                                     question |-> result.question]
                               ELSE [kind |-> "error", ok |-> FALSE,
                                     error |-> result.error])
    /\ tasks' = [tasks EXCEPT ![t] = IdleTask]
    /\ UNCHANGED <<requests, finished, pure, convVars, storeVars,
                   users, user_data, superseded>>

\* handle_quiz_callback with quiz_finish, lines 139-141: read, then await.
quiz_finish_read(t, u) ==
    /\ Arrives(t, u)
    /\ tasks' = [tasks EXCEPT ![t] =
                    [IdleTask EXCEPT !.pc = "finish_clear", !.user = u,
                                     !.handler = "quiz_finish",
                                     !.session = get_quiz_session(quiz_sessions, u)]]
    /\ run' = IF Busy(u) THEN [run EXCEPT ![u] = NoRun] ELSE run
    /\ last' = Event("quiz_finish_read", t, u, 0, NoReply)
    /\ UNCHANGED <<quiz_sessions, interactions, document_usage, finished, pure, convVars,
                   storeVars, userVars>>

\* handle_quiz_callback with quiz_finish, lines 142-160: report and clear.
quiz_finish_clear(t) ==
    /\ tasks[t].pc = "finish_clear"
    /\ LET u == tasks[t].user
           session == tasks[t].session
       IN  IF session = NoSession
           THEN /\ last' = Event("quiz_finish", t, u, 0, [kind |-> "not_found"])
                /\ run' = [run EXCEPT ![u] = NoRun]
                /\ UNCHANGED <<quiz_sessions, finished, graded>>
           ELSE /\ quiz_sessions' = clear_quiz_session(quiz_sessions, u)
                /\ graded' = [graded EXCEPT ![u] = 0]
                /\ last' = Event("quiz_finish", t, u, 0,
                                 [kind |-> "summary",
                                  total |-> session.questions_answered,
                                  correct |-> session.correct_answers])
                /\ run' = [run EXCEPT ![u].phase =
                              IF @ = "running" THEN "finished" ELSE "none"]
                /\ finished' = Completed(u)
    /\ tasks' = [tasks EXCEPT ![t] = IdleTask]
    /\ UNCHANGED <<interactions, document_usage, requests, pure, convVars,
                   storeVars,
                   users, user_data, superseded>>

\* Variant of AnswerOutcome that checks the index against the upper end only.
AnswerOutcome_UpperOnly(session, chosen_index) ==
    IF session = NoSession THEN "no_session"
    ELSE IF chosen_index >= Len(session.options) THEN "out_of_range"
    ELSE "graded"

\* _handle_quiz_answer_selection, lines 485-496: the two rejections.
AnswerOutcome(session, chosen_index) ==
    IF session = NoSession THEN "no_session"
    ELSE IF chosen_index \notin 0..(Len(session.options) - 1) THEN "out_of_range"
    ELSE "graded"

\* Variant of AnswerNextPc in which the no-session reply does not return.
AnswerNextPc_FallThrough(outcome) ==
    IF outcome = "out_of_range" THEN "idle" ELSE "update_stats"

\* Both rejections return; only a graded answer goes on to update_quiz_stats.
AnswerNextPc(outcome) == IF outcome = "graded" THEN "update_stats" ELSE "idle"

\* _handle_quiz_answer_selection, lines 483-515, reached from the answer
\* buttons (handle_quiz_callback, any integer) and from a digit 1-4 sent as
\* text (_try_handle_quiz_answer).
quiz_answer_read(t, u, chosen_index) ==
    /\ Arrives(t, u)
    /\ LET session == get_quiz_session(quiz_sessions, u)
           outcome == AnswerOutcome(session, chosen_index)
           pc == AnswerNextPc(outcome)
           correct_delta ==
               IF outcome = "graded" /\ chosen_index = session.correct_index
               THEN 1 ELSE 0
           total_answers ==
               IF outcome = "graded" THEN session.questions_answered + 1 ELSE 0
           total_correct ==
               IF outcome = "graded"
               THEN session.correct_answers + correct_delta ELSE 0
       IN  /\ tasks' = [tasks EXCEPT ![t] =
                          IF pc = "idle" THEN IdleTask
                          ELSE [IdleTask EXCEPT
                                   !.pc = pc, !.user = u,
                                   !.handler = "quiz_answer",
                                   !.session = session,
                                   !.correct_delta = correct_delta,
                                   !.reported = <<total_correct, total_answers>>]]
           /\ last' = Event("quiz_answer", t, u, chosen_index,
                            [kind |-> outcome, correct |-> correct_delta = 1,
                             total_correct |-> total_correct,
                             total_answers |-> total_answers])
    /\ run' = IF Busy(u) THEN [run EXCEPT ![u] = NoRun] ELSE run
    /\ UNCHANGED <<quiz_sessions, interactions, document_usage, finished, pure, convVars,
                   storeVars, userVars>>

\* _handle_quiz_answer_selection, lines 516-519: count the answer.
quiz_answer_update(t) ==
    /\ tasks[t].pc = "update_stats"
    /\ LET u == tasks[t].user
           delta == tasks[t].correct_delta
       IN  /\ quiz_sessions' = update_quiz_stats(quiz_sessions, u, 1, delta)
           /\ graded' = IF quiz_sessions[u] # NoSession
                         THEN [graded EXCEPT ![u] = @ + 1] ELSE graded
           /\ run' = IF run[u].phase = "running"
                     THEN [run EXCEPT ![u].answered = @ + 1,
                                      ![u].correct = @ + delta]
                     ELSE run
           /\ last' = Event("update_quiz_stats", t, u, 0,
                            [kind |-> "stats", correct |-> delta = 1,
                             total_correct |-> tasks[t].reported[1],
                             total_answers |-> tasks[t].reported[2]])
    /\ tasks' = [tasks EXCEPT ![t].pc = "send_question"]
    /\ UNCHANGED <<interactions, document_usage, requests, finished, pure, convVars,
                   storeVars,
                   users, user_data, superseded>>

NoCall == [fn |-> "none"]

Init == InitQuiz /\ pure = NoCall

Next ==
    \/ \E t \in Tasks, u \in Users : start_quiz(t, u)
    \/ \E t \in Tasks, u \in Users : reset(t, u)
    \/ \E t \in Tasks : send_quiz_question_begin(t)
    \/ \E t \in Tasks : send_quiz_question_end(t)
    \/ \E t \in Tasks, u \in Users : quiz_finish_read(t, u)
    \/ \E t \in Tasks : quiz_finish_clear(t)
    \/ \E t \in Tasks, u \in Users, i \in ChosenIndices : quiz_answer_read(t, u, i)
    \/ \E t \in Tasks : quiz_answer_update(t)

Spec == Init /\ [][Next]_vars

-----------------------------------------------------------------------------
(* Pure functions under check: the argument is drawn in the initial state,  *)
(* the one action applies the function.                                     *)

Call(fn, arg) == [fn |-> fn, arg |-> arg, done |-> FALSE, ret |-> Null]

SeqsUpTo(S, n) == UNION {[1..k -> S] : k \in 0..n}

\* Raw model outputs: every text of at most MaxRawLen atoms.
ParseAtoms == {Fence, Tag, " ", "x", "D1", "D3", "D4"}

RawTexts == SeqsUpTo(ParseAtoms, MaxRawLen)

InitParse ==
    /\ InitQuiz
    /\ pure \in {Call("_parse_quiz_json", r) : r \in RawTexts}

ParseCall ==
    /\ pure.fn = "_parse_quiz_json"
    /\ ~pure.done
    /\ pure' = [pure EXCEPT !.done = TRUE, !.ret = _parse_quiz_json(pure.arg)]
    /\ UNCHANGED <<quizVars, convVars, storeVars, userVars>>

SpecParse == InitParse /\ [][ParseCall]_vars

\* Parsed payloads: every options list of at most MaxOptions entries.
OptionStrings == {<<>>, <<" ">>, <<"a">>, <<" ", "b">>}

PayloadQuestions == {<<>>, <<" ">>, <<"q", " ">>}

Payloads ==
    {Payload(q, opts, ci, <<>>) :
        q \in PayloadQuestions, opts \in SeqsUpTo(OptionStrings, MaxOptions),
        ci \in -1..4}
    \cup {[type |-> "object",
           fields |-> [options |-> <<Str("a"), Str("b"), Str("c")>>]],
          [type |-> "object",
           fields |-> [options |-> <<Str("a"), Str("b"), Str("c"), Str("d")>>]],
          [type |-> "array"]}

InitValidate ==
    /\ InitQuiz
    /\ pure \in {Call("ValidateQuestion", d) : d \in Payloads}

\* The source_paths of a call: the paths of the chunks sample_chunks(2) gave.
ValidateSources == {<<>>, <<"a.txt">>, <<"a.txt", "b.md">>}

\* generate_quiz_question, lines 143-170, for user u and the sampled paths:
\* the payload is validated, and for a payload that passes the interaction
\* and one document use per source path are logged (lines 155-162) before
\* the question is returned.
ValidateCall ==
    /\ pure.fn = "ValidateQuestion"
    /\ ~pure.done
    /\ \E u \in Users, source_paths \in ValidateSources :
          LET ret == ValidateQuestion(pure.arg, source_paths)
          IN  /\ pure' = [pure EXCEPT !.done = TRUE, !.ret = ret]
              /\ interactions' =
                    IF ret.ok THEN [interactions EXCEPT ![u] = @ + 1]
                    ELSE interactions
              /\ document_usage' =
                    IF ret.ok
                    THEN [document_usage EXCEPT ![u] = @ + Len(source_paths)]
                    ELSE document_usage
    /\ UNCHANGED <<quiz_sessions, tasks, requests, last, run, finished,
                   convVars, storeVars, userVars>>

SpecValidate == InitValidate /\ [][ValidateCall]_vars

-----------------------------------------------------------------------------
(* The quiz_sessions table under the calls BotDatabase makes on it.         *)

\* The questions generate_quiz_question can return for the documents.
StoredQuestions ==
    {ValidateQuestion(JsonDocs[d], <<>>).question : d \in {"D1", "D3"}}

TableEvent(op, user_id, args) ==
    [op |-> op, user |-> user_id, args |-> args, before |-> rows]

InitTable ==
    /\ InitQuiz
    /\ pure = NoCall

\* One more call on the table; nothing else in the program moves.
TableStep ==
    /\ requests < MaxCalls
    /\ requests' = requests + 1
    /\ UNCHANGED <<quiz_sessions, interactions, document_usage, tasks, run,
                   finished, pure, conversation, commits, storeVars,
                   userVars>>

TableSet(user_id, q, answered, correct) ==
    /\ TableStep
    /\ rows' = sql_set_quiz_session(rows, user_id, q, answered, correct)
    /\ last' = TableEvent("set_quiz_session", user_id,
                          [q |-> q, answered |-> answered, correct |-> correct])

TableClear(user_id) ==
    /\ TableStep
    /\ rows' = sql_clear_quiz_session(rows, user_id)
    /\ last' = TableEvent("clear_quiz_session", user_id, Null)

TableUpdate(user_id, correct_delta) ==
    /\ TableStep
    /\ rows' = sql_update_quiz_stats(rows, user_id, 1, correct_delta)
    /\ last' = TableEvent("update_quiz_stats", user_id,
                          [correct_delta |-> correct_delta])

NextTable ==
    \/ \E u \in Users, q \in StoredQuestions, a \in 0..1 : TableSet(u, q, a, 0)
    \/ \E u \in Users : TableClear(u)
    \/ \E u \in Users, d \in 0..1 : TableUpdate(u, d)

SpecTable == InitTable /\ [][NextTable]_vars

-----------------------------------------------------------------------------
(* One ConversationManager under the calls ChatService and the reset        *)
(* handler make on it: build_messages, update, reset.                       *)

\* The text of the n-th call, written in chat chat_id.
UserText(chat_id, n) == [chat |-> chat_id, n |-> n]

\* What the model answers to a text.
ReplyTo(text) == <<"answer", text>>

\* The (user, assistant) pair update appends.
Pair(user_text, assistant_text) ==
    <<Msg("user", user_text), Msg("assistant", assistant_text)>>

ConvEvent(op, chat_id, text, messages) ==
    [op |-> op, chat |-> chat_id, text |-> text, messages |-> messages,
     before |-> conversation]

InitConversation ==
    /\ InitUsers("active")
    /\ InitHandlers
    /\ conversation \in {ConversationManager(n) : n \in 0..MaxHistory}
    /\ commits = [c \in Chats |-> <<>>]
    /\ rows = {}
    /\ InitStore(QuizCorpus)
    /\ pure = NoCall

\* One more call on the manager; nothing else in the program moves.
ConvStep ==
    /\ requests < MaxCalls
    /\ requests' = requests + 1
    /\ UNCHANGED <<quiz_sessions, interactions, document_usage, tasks, run,
                   finished, pure, rows, storeVars, userVars>>

ConvBuild(chat_id) ==
    /\ ConvStep
    /\ LET text == UserText(chat_id, requests + 1)
           built == ConversationManager_build_messages(conversation, chat_id,
                                                       text, <<>>)
       IN  /\ conversation' = built.conversation
           /\ last' = ConvEvent("build_messages", chat_id, text, built.messages)
    /\ UNCHANGED commits

ConvUpdate(chat_id) ==
    /\ ConvStep
    /\ LET text == UserText(chat_id, requests + 1)
       IN  /\ conversation' = ConversationManager_update(conversation, chat_id,
                                                         text, ReplyTo(text))
           /\ commits' = [commits EXCEPT ![chat_id] =
                              Append(@, Pair(text, ReplyTo(text)))]
           /\ last' = ConvEvent("update", chat_id, text, <<>>)

ConvReset(chat_id) ==
    /\ ConvStep
    /\ conversation' = ConversationManager_reset(conversation, chat_id)
    /\ commits' = [commits EXCEPT ![chat_id] = <<>>]
    /\ last' = ConvEvent("reset", chat_id, Null, <<>>)

NextConversation ==
    \/ \E c \in Chats : ConvBuild(c)
    \/ \E c \in Chats : ConvUpdate(c)
    \/ \E c \in Chats : ConvReset(c)

SpecConversation == InitConversation /\ [][NextConversation]_vars

-----------------------------------------------------------------------------
(* ChatService.answer_text and answer_image under the handlers that call    *)
(* them, with the reset handler; coroutines interleave at their awaits.     *)

\* The characters of the texts users send, as search reads them.
ChatQueries == {<<"a", "a", "a">>, <<"a", "b">>}

\* prompt_label of answer_image: the photo marker before the query text.
PhotoLabel(query_text) == [photo |-> query_text]

\* What lm_client.chat may return for a chat prompt.
ChatReplies(text) == {ModelError, ReplyTo(text)}

\* Variant of answer_commit that updates the history whatever the model call
\* returned.
answer_commit_Always(conv, chat_id, label, reply) ==
    ConversationManager_update(conv, chat_id, label, reply)

\* Lines 58-59 and 82-84: an error of the model call propagates, so update
\* runs only with a reply.
answer_commit(conv, chat_id, label, reply) ==
    IF reply = ModelError THEN conv
    ELSE ConversationManager_update(conv, chat_id, label, reply)

InitChat ==
    /\ InitUsers("active")
    /\ InitHandlers
    /\ conversation \in {ConversationManager(n) : n \in 0..MaxHistory}
    /\ commits = [c \in Chats |-> <<>>]
    /\ rows = {}
    /\ InitStore(QuizCorpus)
    /\ pure = NoCall

\* The coroutine of a handler that has built its prompt and awaits: it holds
\* the contexts found and the messages built (of which the system message
\* is kept), and, as history, the chunk list it searched.
Awaiting(u, handler, pc, text, contexts) ==
    [IdleTask EXCEPT !.pc = pc, !.user = u, !.handler = handler,
                     !.text = text, !.source_paths = PathsOf(contexts),
                     !.system = SystemContent(contexts),
                     !.searched = document_store.chunks]

\* The rows answer_text and answer_image log after the model call.
LoggedInteractions(reply) == IF reply = ModelError THEN 0 ELSE 1

LoggedDocuments(reply, contexts) ==
    IF reply = ModelError THEN 0 ELSE Len(contexts)

\* The pairs committed to a chat, after a model call returned.
Committed(chat_id, label, reply) ==
    IF reply = ModelError THEN commits
    ELSE [commits EXCEPT ![chat_id] = Append(@, Pair(label, reply))]

\* What search gave a handler for the characters of its text.
SearchReply(query, result) ==
    [kind |-> "search", query |-> query, result |-> result]

\* What the handler gets back: the reply or the error, with the contexts
\* returned; the system message sent and the chunk list searched are kept
\* with it.
AnswerReply(reply, task) ==
    [kind |-> IF reply = ModelError THEN "error" ELSE "reply",
     ok |-> reply # ModelError,
     handler |-> task.handler,
     text |-> task.text,
     contexts |-> task.source_paths,
     system |-> task.system,
     searched |-> task.searched]

\* handle_text, lines 652-654, into answer_text, lines 51-58: search,
\* build_messages, then the await of the model call.
answer_text_begin(t, u) ==
    /\ Arrives(t, u)
    /\ is_active(users[u])
    /\ \E query \in ChatQueries :
          LET text == UserText(effective_chat[u], requests + 1)
              found == DocumentStore_search(document_store, query, DefaultLimit)
              built == ConversationManager_build_messages(
                           conversation, effective_chat[u], text, found.result)
          IN  /\ document_store' = found.store
              /\ conversation' = built.conversation
              /\ tasks' = [tasks EXCEPT ![t] =
                    Awaiting(u, "answer_text", "text_model_call", text, found.result)]
              /\ last' = Event("answer_text", t, u, 0,
                               SearchReply(query, found.result))
    /\ UNCHANGED <<quiz_sessions, interactions, document_usage, run, finished,
                   pure, commits, rows, root_dir, indexed, userVars, clock>>

\* answer_text, lines 58-64, or the except branch of handle_text.
answer_text_end(t) ==
    /\ tasks[t].pc = "text_model_call"
    /\ \E reply \in ChatReplies(tasks[t].text) :
          LET u == tasks[t].user
              chat_id == effective_chat[u]
              label == tasks[t].text
          IN  /\ conversation' = answer_commit(conversation, chat_id, label, reply)
              /\ commits' = Committed(chat_id, label, reply)
              /\ interactions' =
                    [interactions EXCEPT ![u] = @ + LoggedInteractions(reply)]
              /\ document_usage' =
                    [document_usage EXCEPT ![u] =
                        @ + LoggedDocuments(reply, tasks[t].source_paths)]
              /\ last' = Event("answer_end", t, u, 0,
                               AnswerReply(reply, tasks[t]))
    /\ tasks' = [tasks EXCEPT ![t] = IdleTask]
    /\ UNCHANGED <<quiz_sessions, requests, run, finished, pure, rows,
                   storeVars, userVars>>

\* handle_photo, lines 752-757, into answer_image, lines 69-77: search,
\* build_messages, then the await of the image encoding.
answer_image_begin(t, u) ==
    /\ Arrives(t, u)
    /\ is_active(users[u])
    /\ \E query \in ChatQueries :
          LET text == UserText(effective_chat[u], requests + 1)
              found == DocumentStore_search(document_store, query, DefaultLimit)
              built == ConversationManager_build_messages(
                           conversation, effective_chat[u], text, found.result)
          IN  /\ document_store' = found.store
              /\ conversation' = built.conversation
              /\ tasks' = [tasks EXCEPT ![t] =
                    Awaiting(u, "answer_image", "image_encode", text, found.result)]
              /\ last' = Event("answer_image", t, u, 0,
                               SearchReply(query, found.result))
    /\ UNCHANGED <<quiz_sessions, interactions, document_usage, run, finished,
                   pure, commits, rows, root_dir, indexed, userVars, clock>>

\* answer_image, lines 77-82: the image is encoded, or encoding fails.
answer_image_encode(t) ==
    /\ tasks[t].pc = "image_encode"
    /\ \E ok \in BOOLEAN :
          /\ tasks' = [tasks EXCEPT ![t] =
                          IF ok THEN [@ EXCEPT !.pc = "image_model_call"]
                          ELSE IdleTask]
          /\ last' = Event("answer_end", t, tasks[t].user, 0,
                           IF ok THEN [kind |-> "encoded", ok |-> TRUE]
                           ELSE [kind |-> "error", ok |-> FALSE])
    /\ UNCHANGED <<quiz_sessions, interactions, document_usage, requests, run,
                   finished, pure, convVars, storeVars, userVars>>

\* answer_image, lines 82-89, or the except branch of handle_photo.
answer_image_end(t) ==
    /\ tasks[t].pc = "image_model_call"
    /\ \E reply \in ChatReplies(tasks[t].text) :
          LET u == tasks[t].user
              chat_id == effective_chat[u]
              label == PhotoLabel(tasks[t].text)
          IN  /\ conversation' = answer_commit(conversation, chat_id, label, reply)
              /\ commits' = Committed(chat_id, label, reply)
              /\ interactions' =
                    [interactions EXCEPT ![u] = @ + LoggedInteractions(reply)]
              /\ document_usage' =
                    [document_usage EXCEPT ![u] =
                        @ + LoggedDocuments(reply, tasks[t].source_paths)]
              /\ last' = Event("answer_end", t, u, 0,
                               AnswerReply(reply, tasks[t]))
    /\ tasks' = [tasks EXCEPT ![t] = IdleTask]
    /\ UNCHANGED <<quiz_sessions, requests, run, finished, pure, rows,
                   storeVars, userVars>>

NextChat ==
    \/ \E t \in Tasks, u \in Users : answer_text_begin(t, u)
    \/ \E t \in Tasks : answer_text_end(t)
    \/ \E t \in Tasks, u \in Users : answer_image_begin(t, u)
    \/ \E t \in Tasks : answer_image_encode(t)
    \/ \E t \in Tasks : answer_image_end(t)
    \/ \E t \in Tasks, u \in Users : reset(t, u)

SpecChat == InitChat /\ [][NextChat]_vars

-----------------------------------------------------------------------------
(* Claims about the quiz session state machine (Spec) *)

HasSession(u) == quiz_sessions[u] # NoSession

\* The generation step of a handler just wrote a new question for a user who
\* already had a session.
QuestionRewritten ==
    /\ last.op = "generate_end"
    /\ last.reply.ok
    /\ last.before.session # NoSession

\* C1: writing the next generated question for a user whose session exists
\* leaves questionsAnswered and correctAnswers as they were just before the
\* write; the counters go back to 0 only through a clear.
C1_CountersSurviveRewrite ==
    QuestionRewritten =>
        /\ quiz_sessions[last.user].questions_answered =
               last.before.session.questions_answered
        /\ quiz_sessions[last.user].correct_answers =
               last.before.session.correct_answers

\* C2: in a quiz run handled one request at a time (quiz-start, k graded
\* answers of which c correct, every generation successful, then Finish) the
\* summary Finish reports is k answered, c correct.
C2_FinishReportsRun ==
    (last.op = "quiz_finish" /\ run[last.user].phase = "finished") =>
        /\ last.reply.kind = "summary"
        /\ last.reply.total = run[last.user].answered
        /\ last.reply.correct = run[last.user].correct

\* C3: counting a graded answer adds exactly 1 to the stored
\* questionsAnswered and 1 or 0 to the stored correctAnswers, and the
\* statistics reported to the user for that answer are the stored counters
\* after the increment.
C3_GradeCountsAndReports ==
    (last.op = "update_quiz_stats" /\ last.before.session # NoSession) =>
        /\ HasSession(last.user)
        /\ quiz_sessions[last.user].questions_answered =
               last.before.session.questions_answered + 1
        /\ quiz_sessions[last.user].correct_answers =
               last.before.session.correct_answers
                   + (IF last.reply.correct THEN 1 ELSE 0)
        /\ last.reply.total_answers = quiz_sessions[last.user].questions_answered
        /\ last.reply.total_correct = quiz_sessions[last.user].correct_answers

\* An answer arrived for a user with a session, its index outside the options.
OutOfRangeAnswer ==
    /\ last.op = "quiz_answer"
    /\ last.before.session # NoSession
    /\ last.chosen_index \notin 0..(Len(last.before.session.options) - 1)

\* C4: an answer whose index is outside 0..(number of options - 1), negative
\* ones included, is rejected: the stored session keeps its content and both
\* counters, and the handler returns without generating a next question.
C4_OutOfRangeRejected ==
    OutOfRangeAnswer =>
        /\ last.reply.kind = "out_of_range"
        /\ quiz_sessions[last.user] = last.before.session
        /\ tasks[last.task].pc = "idle"

\* An answer with a negative index arrived for a user with a stored session.
C4_Witness == OutOfRangeAnswer /\ last.chosen_index < 0

\* An answer arrived for a user without a session.
AnswerWithoutSession ==
    /\ last.op = "quiz_answer"
    /\ last.before.session = NoSession

\* C5: an answer from a user with no stored session gets the
\* no-active-session reply: no session is created, nothing is logged, and
\* the handler returns without a model call for a next question.
C5_NoActiveSession ==
    AnswerWithoutSession =>
        /\ last.reply.kind = "no_session"
        /\ ~HasSession(last.user)
        /\ interactions[last.user] = last.before.interactions
        /\ document_usage[last.user] = last.before.document_usage
        /\ tasks[last.task].pc = "idle"

\* An answer with an index a question would accept arrived for a user
\* without a stored session.
C5_Witness == AnswerWithoutSession /\ last.chosen_index \in 0..3

\* C6: once Finish or Reset has completed for a user, that user has no
\* stored session until the user next starts a quiz.
C6_NoSessionAfterFinish ==
    \A u \in Users : finished[u] => ~HasSession(u)

\* A generation attempt just failed.
GenerationFailed == last.op = "generate_end" /\ ~last.reply.ok

\* C7: a failed generation (model error, no JSON candidate, validation
\* failure) leaves the user's stored session as it was (absent or the same
\* content and counters) and logs no interaction and no document usage;
\* neither does the step that issues the model call.
C7_FailureChangesNothing ==
    (GenerationFailed \/ last.op = "generate_begin") =>
        /\ quiz_sessions[last.user] = last.before.session
        /\ interactions[last.user] = last.before.interactions
        /\ document_usage[last.user] = last.before.document_usage

C7_Witness ==
    /\ GenerationFailed
    /\ last.reply.error = "ValidationError: options"
    /\ last.before.session # NoSession
    /\ tasks[last.task].pc = "idle"

\* 4 options, none empty, none with outer whitespace; index 0..3; a question.
WellFormed(q) ==
    /\ Len(q.options) = 4
    /\ \A i \in 1..Len(q.options) :
          q.options[i] # <<>> /\ strip(q.options[i]) = q.options[i]
    /\ q.correct_index \in 0..3
    /\ strip(q.question) # <<>>

\* C8: every question generation returns and every stored session has
\* exactly 4 non-empty trimmed options, a correctIndex in 0..3 and a
\* non-empty question.
C8_QuestionsWellFormed ==
    /\ \A u \in Users : HasSession(u) => WellFormed(quiz_sessions[u])
    /\ (last.op = "generate_end" /\ last.reply.ok) =>
           WellFormed(last.reply.question)

C8_Witness ==
    /\ last.op = "generate_end"
    /\ last.reply.ok
    /\ HasSession(last.user)
    /\ quiz_sessions[last.user].question = last.reply.question.question
    /\ quiz_sessions[last.user].correct_index = 1

-----------------------------------------------------------------------------
(* Claims about validation (SpecValidate) *)

Blank(option) == strip(option) = <<>>

\* The payload's options list is exactly 4 non-empty strings.
FourNonEmptyOptions(data) ==
    /\ data.type = "object"
    /\ LET options == Get(data.fields, "options", <<>>)
       IN  Len(options) = 4 /\ \A i \in 1..4 : ~Blank(options[i])

\* C9: validation fails whenever the payload's options list is not exactly
\* 4 non-empty strings (3 options, 5 or more, or a blank one among them).
C9_BadOptionsRejected ==
    (pure.fn = "ValidateQuestion" /\ pure.done /\ pure.arg.type = "object"
        /\ ~FourNonEmptyOptions(pure.arg)) => ~pure.ret.ok

-----------------------------------------------------------------------------
(* Claims about _parse_quiz_json (SpecParse) *)

Parsed == pure.fn = "_parse_quiz_json" /\ pure.done

\* The places of the fence delimiters in a text, with both ends.
Cuts(text) == {0, Len(text) + 1} \cup {i \in 1..Len(text) : text[i] = Fence}

\* (a, b) are neighbouring cuts: the text between them is one segment.
Neighbours(text, a, b) ==
    /\ a \in Cuts(text) /\ b \in Cuts(text) /\ a < b
    /\ ~\E c \in Cuts(text) : a < c /\ c < b

\* The segment after cut a, trimmed, a leading json tag removed.
SegmentAfter(text, a) ==
    LET b == CHOOSE c \in Cuts(text) : Neighbours(text, a, c)
        seg == strip(SubSeq(text, a + 1, b - 1))
    IN  IF seg # <<>> /\ Head(seg) = Tag THEN strip(Tail(seg)) ELSE seg

\* Cuts that open a segment.
Openers(text) == Cuts(text) \ {Len(text) + 1}

\* A segment lies inside a fence when an odd number of delimiters precede it.
Fenced(text, a) ==
    a # 0 /\ Cardinality({c \in Cuts(text) : 0 < c /\ c <= a}) % 2 = 1

\* The result prescribed when the segments opened at the cuts in `from` are
\* the candidates after the trimmed text itself.
FirstOf(text, from, ret) ==
    LET good == {a \in from : json_loads(SegmentAfter(text, a)).ok}
    IN  IF json_loads(text).ok THEN ret = json_loads(text)
        ELSE IF Cardinality(Cuts(text)) = 2 \/ good = {}
             THEN ~ret.ok /\ ret.error = "MalformedQuestion"
        ELSE LET first == CHOOSE a \in good : \A c \in good : a <= c
             IN  ret = json_loads(SegmentAfter(text, first))

\* C10 as stated: the candidates are the trimmed text, then the fenced
\* segments in order; text outside the fences is never a candidate.
C10_OnlyFencedSegments ==
    Parsed =>
        FirstOf(strip(pure.arg),
                {a \in Openers(strip(pure.arg)) : Fenced(strip(pure.arg), a)},
                pure.ret)

\* C10 amended: the candidates are the trimmed text, then every segment
\* between fence delimiters, fenced or not, in order of appearance, each
\* trimmed and with a leading json tag removed; the result is the parse of
\* the first candidate that is valid JSON, and the malformed-question error
\* exactly when there is none.
C10_EverySegment ==
    Parsed => FirstOf(strip(pure.arg), Openers(strip(pure.arg)), pure.ret)

\* A fenced, tagged document was parsed although the whole text is not JSON.
C10_Witness ==
    /\ Parsed
    /\ pure.ret.ok
    /\ ~json_loads(strip(pure.arg)).ok
    /\ \E a \in Openers(strip(pure.arg)) :
          /\ Fenced(strip(pure.arg), a)
          /\ a < Len(strip(pure.arg))
          /\ strip(pure.arg)[a + 1] = Tag
          /\ json_loads(SegmentAfter(strip(pure.arg), a)) = pure.ret

-----------------------------------------------------------------------------
(* Claims about the quiz_sessions table (SpecTable) *)

RowsOf(rs, user_id) == {r \in rs : r.user_id = user_id}

\* The table read as the handlers' model reads it: user id -> row or none.
TableView(rs) ==
    [u \in Users |->
        IF RowsOf(rs, u) = {} THEN NoSession
        ELSE LET r == CHOOSE x \in RowsOf(rs, u) : TRUE
             IN  [question |-> r.question, options |-> r.options,
                  correct_index |-> r.correct_index,
                  explanation |-> r.explanation, sources |-> r.sources,
                  questions_answered |-> r.questions_answered,
                  correct_answers |-> r.correct_answers]]

\* The table after a call is what the same call makes of the user -> row
\* view of the table before it.
TableAgrees ==
    LET before == TableView(last.before)
    IN  CASE last.op = "set_quiz_session" ->
                TableView(rows) =
                    set_quiz_session(before, last.user, last.args.q,
                                     last.args.answered, last.args.correct)
          [] last.op = "clear_quiz_session" ->
                TableView(rows) = clear_quiz_session(before, last.user)
          [] last.op = "update_quiz_stats" ->
                TableView(rows) =
                    update_quiz_stats(before, last.user, 1,
                                      last.args.correct_delta)
          [] OTHER -> TRUE

\* C11: the table holds at most one row per user in every reachable state;
\* writing a session for a user who has one replaces that row (no second
\* row), and the other users' rows stay as they were.
C11_OneSessionPerUser ==
    /\ \A u \in Users : Cardinality(RowsOf(rows, u)) <= 1
    /\ TableAgrees
    /\ last.op = "set_quiz_session" =>
          /\ Cardinality(RowsOf(rows, last.user)) = 1
          /\ \A u \in Users \ {last.user} :
                RowsOf(rows, u) = RowsOf(last.before, u)

C11_Witness ==
    /\ last.op = "set_quiz_session"
    /\ RowsOf(last.before, last.user) # {}
    /\ RowsOf(rows, last.user) # RowsOf(last.before, last.user)
    /\ Cardinality(rows) = 2

-----------------------------------------------------------------------------
(* Further claims about the quiz handlers (Spec) *)

\* Finish completed for a user who had no stored session.
FinishWithoutSession ==
    /\ last.op = "quiz_finish"
    /\ last.before.session = NoSession
    /\ tasks[last.task].pc = "idle"

\* C12: Finish for a user with no active session reports a zero-valued
\* summary (nothing answered), creates no session and leaves the quiz store
\* unchanged.
C12_FinishWithoutSessionSummary ==
    FinishWithoutSession =>
        /\ last.reply.kind = "summary"
        /\ last.reply.total = 0
        /\ last.reply.correct = 0
        /\ ~HasSession(last.user)

-----------------------------------------------------------------------------
(* Claims about ConversationManager (SpecConversation) *)

Min(a, b) == IF a < b THEN a ELSE b

\* C13: with N = max_messages >= 0, after k updates of one conversation since
\* its last reset the stored history has exactly min(2k, 2N) messages (2N
\* after 2N+1 updates), and never more than 2N.
C13_HistoryLength ==
    \A c \in Chats :
        /\ Len(HistoryOf(conversation, c)) =
               Min(2 * Len(commits[c]), 2 * conversation.max_messages)
        /\ Len(HistoryOf(conversation, c)) <= 2 * conversation.max_messages

C13_Witness ==
    /\ last.op = "update"
    /\ conversation.max_messages >= 1
    /\ Len(commits[last.chat]) = 2 * conversation.max_messages + 1
    /\ Len(HistoryOf(conversation, last.chat)) = 2 * conversation.max_messages

-----------------------------------------------------------------------------
(* Claims about the chat handlers (SpecChat) *)

\* user, assistant, user, assistant, ...: even length, starting with user.
Alternates(history) ==
    /\ Len(history) % 2 = 0
    /\ \A i \in 1..Len(history) :
          history[i].role = (IF i % 2 = 1 THEN "user" ELSE "assistant")

\* C14: in every reachable state, under any interleaving of answer_text,
\* answer_image and reset on the same conversation, each stored history has
\* even length and alternates user, assistant from a user message on.
C14_WholePairs ==
    \A c \in Chats : Alternates(HistoryOf(conversation, c))

\* An update evicted a pair while another request of the chat is in flight.
C14_Witness ==
    /\ last.op = "answer_end"
    /\ last.reply.kind = "reply"
    /\ Len(last.before.history) = 2 * conversation.max_messages
    /\ conversation.max_messages >= 1
    /\ Len(HistoryOf(conversation, effective_chat[last.user])) =
           2 * conversation.max_messages
    /\ \E t \in Tasks : tasks[t].pc # "idle" /\ tasks[t].user = last.user

-----------------------------------------------------------------------------
(* Further claims about ConversationManager (SpecConversation) *)

RECURSIVE Flatten(_)
Flatten(pairs) ==
    IF pairs = <<>> THEN <<>> ELSE Head(pairs) \o Flatten(Tail(pairs))

\* The last n elements of a sequence.
LastN(seq, n) == SubSeq(seq, Len(seq) - Min(n, Len(seq)) + 1, Len(seq))

\* C15: after k updates of a conversation since its last reset, the stored
\* history is exactly the most recent min(k, N) committed (user, assistant)
\* pairs, in commit order.
C15_MostRecentPairs ==
    \A c \in Chats :
        HistoryOf(conversation, c) =
            Flatten(LastN(commits[c], conversation.max_messages))

\* An older pair was evicted and more than one pair is kept.
C15_Witness ==
    /\ last.op = "update"
    /\ conversation.max_messages = 2
    /\ Len(commits[last.chat]) > 2
    /\ HistoryOf(conversation, last.chat) # <<>>

\* C16: build_messages leaves the conversation store as it was: the same
\* ids have an entry and every history is the same, also for an id that has
\* no history yet.
C16_BuildLeavesStore ==
    last.op = "build_messages" => conversation = last.before

\* The contents of the messages of a conversation name the chat they were
\* written in.
OfChat(message, chat_id) ==
    IF message.role = "user"
    THEN message.content.chat = chat_id
    ELSE message.content[2].chat = chat_id

\* C17: build_messages returns len(history) + 2 messages: the system message,
\* the stored history of that conversation in stored order, the new user
\* message; no message of another conversation appears.
C17_PromptShape ==
    last.op = "build_messages" =>
        LET history == HistoryOf(last.before, last.chat)
            messages == last.messages
        IN  /\ Len(messages) = Len(history) + 2
            /\ messages[1] = Msg("system", SystemContent(<<>>))
            /\ SubSeq(messages, 2, Len(messages) - 1) = history
            /\ messages[Len(messages)] = Msg("user", last.text)
            /\ \A i \in 2..Len(messages) : OfChat(messages[i], last.chat)

\* A prompt was built over a history of two pairs while the other chat has
\* a history of its own.
C17_Witness ==
    /\ last.op = "build_messages"
    /\ Len(last.messages) = 6
    /\ \E c \in Chats \ {last.chat} : HistoryOf(conversation, c) # <<>>

\* C18: reset leaves the conversation with an empty history (a prompt built
\* next holds only the system message and the new user message); reset of an
\* id without an entry changes nothing; a second reset changes nothing; the
\* other conversations keep their histories.
C18_ResetClears ==
    last.op = "reset" =>
        /\ HistoryOf(conversation, last.chat) = <<>>
        /\ ConversationManager_build_messages(
               conversation, last.chat, UserText(last.chat, 0), <<>>).messages
             = <<Msg("system", SystemContent(<<>>)),
                 Msg("user", UserText(last.chat, 0))>>
        /\ last.chat \notin DOMAIN last.before._history =>
               conversation = last.before
        /\ ConversationManager_reset(conversation, last.chat) = conversation
        /\ \A c \in Chats \ {last.chat} :
               HistoryOf(conversation, c) = HistoryOf(last.before, c)

C18_Witness ==
    /\ last.op = "reset"
    /\ HistoryOf(last.before, last.chat) # <<>>
    /\ \E c \in Chats \ {last.chat} : HistoryOf(conversation, c) # <<>>

-----------------------------------------------------------------------------
(* Further claims about the chat handlers (SpecChat) *)

\* A request for an answer ended in an error: the model call or the image
\* encoding failed.
AnswerFailed == last.op = "answer_end" /\ ~last.reply.ok

\* A request for an answer took a step that precedes the model's reply.
BeforeReply ==
    \/ last.op \in {"answer_text", "answer_image"}
    \/ last.op = "answer_end" /\ last.reply.kind = "encoded"

\* C19: answer_text and answer_image commit the pair and log the interaction
\* only after the model call returned: a failed model call or image encoding,
\* and every step before the reply, leaves the history of the conversation
\* and the logs as they were.
C19_CommitAfterReply ==
    (AnswerFailed \/ BeforeReply) =>
        /\ HistoryOf(conversation, effective_chat[last.user]) =
               last.before.history
        /\ interactions[last.user] = last.before.interactions
        /\ document_usage[last.user] = last.before.document_usage

\* The model call failed for a chat with a history and documents found.
C19_Witness ==
    /\ AnswerFailed
    /\ last.reply.kind = "error"
    /\ last.before.history # <<>>
    /\ last.before.document_usage > 0

-----------------------------------------------------------------------------
(* Claims about concurrent grading (Spec) *)

\* Another grading request of the same user that read the same stored
\* question has already counted its answer and is still in flight.
ConcurrentGrader(t) ==
    \E other \in Tasks \ {t} :
        /\ tasks[other].handler = "quiz_answer"
        /\ tasks[other].user = tasks[t].user
        /\ tasks[other].pc \in {"send_question", "model_call"}
        /\ tasks[other].session = tasks[t].session

\* C20: grading requests of one user are serialized; in particular, of two
\* concurrent answers to the same displayed question only one increments the
\* stored questionsAnswered.
C20_GradingSerialized ==
    (/\ last.op = "update_quiz_stats"
     /\ last.before.session # NoSession
     /\ ConcurrentGrader(last.task)) =>
        quiz_sessions[last.user].questions_answered =
            last.before.session.questions_answered

-----------------------------------------------------------------------------
(* The splitter under check: every text of at most MaxTextLen characters    *)
(* and every max_len of 1..MaxCap.                                          *)

SplitChars == {"a", " ", "\n"}

SplitTexts == SeqsUpTo(SplitChars, MaxTextLen)

InitSplit ==
    /\ InitQuiz
    /\ pure \in {Call("_split_into_chunks", [text |-> t, max_len |-> m]) :
                    t \in SplitTexts, m \in 1..MaxCap}

\* The call returns the chunks; the buffers they were joined from are kept
\* with them.
SplitCall ==
    /\ pure.fn = "_split_into_chunks"
    /\ ~pure.done
    /\ pure' = [pure EXCEPT
                   !.done = TRUE,
                   !.ret = [chunks |-> _split_into_chunks(pure.arg.text,
                                                          pure.arg.max_len),
                            buffers |-> SplitBuffers(pure.arg.text,
                                                     pure.arg.max_len)]]
    /\ UNCHANGED <<quizVars, convVars, storeVars, userVars>>

SpecSplit == InitSplit /\ [][SplitCall]_vars

-----------------------------------------------------------------------------
(* Claims about the splitter (SpecSplit) *)

SplitDone == pure.fn = "_split_into_chunks" /\ pure.done

\* The characters of the pieces of a buffer, the joiners not counted: what
\* the splitter's length counts.
RECURSIVE PieceLength(_)
PieceLength(buffer) ==
    IF buffer = <<>> THEN 0 ELSE Len(Head(buffer)) + PieceLength(Tail(buffer))

\* The length of the longest piece of a buffer.
LongestPiece(buffer) ==
    CHOOSE n \in 0..MaxTextLen :
        /\ \A i \in 1..Len(buffer) : Len(buffer[i]) <= n
        /\ buffer = <<>> \/ \E i \in 1..Len(buffer) : Len(buffer[i]) = n

\* C28: for every text and every max_len >= 1, the text of every chunk the
\* splitter yields, the blank-line joiners between its paragraphs counted,
\* is at most max_len plus the length of one paragraph piece (here: of the
\* longest piece of the chunk).
C28_ChunkWithinCap ==
    SplitDone =>
        \A i \in 1..Len(pure.ret.chunks) :
            Len(pure.ret.chunks[i]) <=
                pure.arg.max_len + LongestPiece(pure.ret.buffers[i])

\* C29: every chunk the splitter yields, except possibly the last one of the
\* text, has an accumulated paragraph length of at least max_len.
C29_ClosedAtCap ==
    SplitDone =>
        \A i \in 1..(Len(pure.ret.buffers) - 1) :
            PieceLength(pure.ret.buffers[i]) >= pure.arg.max_len

\* A text split into several chunks whose last chunk stayed below max_len.
C29_Witness ==
    /\ SplitDone
    /\ Len(pure.ret.buffers) >= 2
    /\ PieceLength(pure.ret.buffers[Len(pure.ret.buffers)]) < pure.arg.max_len
    /\ \E i \in 1..(Len(pure.ret.buffers) - 1) :
          Len(pure.ret.buffers[i]) >= 2

-----------------------------------------------------------------------------
(* search under check: every index of at most MaxChunks chunks, every query *)
(* of at most MaxQueryLen characters and some longer ones, every limit of   *)
(* 0..MaxLimit.                                                             *)

ChunkTexts ==
    {<<"a", "a", "a", "a">>,
     <<"A", "a", "a", " ", "a", "a", "a">>,
     <<"a", "_", "b">>}

\* The chunks of an index: the first two of a.txt, the others of b.md.
IndexOf(texts) ==
    [i \in 1..Len(texts) |->
        DocumentChunk(IF i <= 2 THEN "a.txt" ELSE "b.md", texts[i])]

Indexes == {IndexOf(texts) : texts \in SeqsUpTo(ChunkTexts, MaxChunks)}

QueryChars == {"a", "A", "b", "_", " "}

LongQueries ==
    {<<"a", "a", "a", " ", "a", "a", "a">>,
     <<"a", "a", "a", " ", "a", "_", "b">>,
     <<"a", "a", "a", "_", "b">>,
     <<"a", "a", "a", "a">>,
     <<" ", "a", "a", "a", " ", "a", "a">>}

Queries == SeqsUpTo(QueryChars, MaxQueryLen) \cup LongQueries

InitSearch ==
    /\ InitQuiz
    /\ pure \in {Call("search", [chunks |-> c, query |-> q, limit |-> l]) :
                    c \in Indexes, q \in Queries, l \in 0..MaxLimit}

SearchCall ==
    /\ pure.fn = "search"
    /\ ~pure.done
    /\ pure' = [pure EXCEPT
                   !.done = TRUE,
                   !.ret = DocumentStore_search([chunks |-> pure.arg.chunks],
                                                pure.arg.query,
                                                pure.arg.limit).result]
    /\ UNCHANGED <<quizVars, convVars, storeVars, userVars>>

SpecSearch == InitSearch /\ [][SearchCall]_vars

-----------------------------------------------------------------------------
(* Claims about search (SpecSearch) *)

SearchDone == pure.fn = "search" /\ pure.done

\* Every chunk search finds for the query of the call, in its order: the
\* result of the same search with a limit no smaller than the index.
AllFound ==
    DocumentStore_search([chunks |-> pure.arg.chunks], pure.arg.query,
                         Len(pure.arg.chunks)).result

\* The positions of the index whose chunk has a match for the words.
MatchingPositions(chunks, words) ==
    {i \in 1..Len(chunks) : Matches(lower(chunks[i].text), words) > 0}

\* found lists chunks of different index positions by non-increasing score,
\* chunks of equal score in the order of their positions.
StablyOrdered(found, chunks) ==
    \E pos \in [1..Len(found) -> 1..Len(chunks)] :
        /\ \A k \in 1..Len(found) :
              /\ found[k].path = chunks[pos[k]].path
              /\ found[k].text = chunks[pos[k]].text
        /\ \A k, l \in 1..Len(found) :
              k < l =>
                 /\ ~ScoreLess(found[k].score, found[l].score)
                 /\ pos[k] # pos[l]
                 /\ ~ScoreLess(found[l].score, found[k].score)
                       => pos[k] < pos[l]

\* C22: for every index, query and limit >= 0, search returns at most limit
\* chunks by non-increasing score, chunks of equal score in their index
\* order: exactly the first limit elements of that ordering of all the
\* matching chunks.
C22_TopLimitStable ==
    SearchDone =>
        /\ Len(pure.ret) <= pure.arg.limit
        /\ StablyOrdered(AllFound, pure.arg.chunks)
        /\ Len(AllFound) =
              Cardinality(MatchingPositions(pure.arg.chunks,
                                            QueryWords(pure.arg.query)))
        /\ pure.ret =
              SubSeq(AllFound, 1,
                     IF pure.arg.limit < Len(AllFound) THEN pure.arg.limit
                     ELSE Len(AllFound))

\* A search cut by its limit whose result holds two different chunks of
\* equal score, and one that returns a later chunk before an earlier one.
C22_Witness ==
    /\ SearchDone
    /\ Len(pure.ret) = 2
    /\ Len(AllFound) = 3
    /\ \/ /\ pure.ret[1].text # pure.ret[2].text
          /\ pure.ret[1].score = pure.ret[2].score
       \/ /\ pure.ret[1].text = pure.arg.chunks[3].text
          /\ pure.ret[1].text # pure.arg.chunks[1].text
          /\ pure.ret[2].text = pure.arg.chunks[1].text

\* The alphanumeric characters of the model.
AlnumChars == {"a", "b", "A", "B", "1"}

\* The maximal runs of alphanumeric characters of s.
RECURSIVE AlnumWordsFrom(_, _)
AlnumWordsFrom(s, acc) ==
    IF s = <<>> THEN IF acc = <<>> THEN <<>> ELSE <<acc>>
    ELSE IF Head(s) \in AlnumChars
         THEN AlnumWordsFrom(Tail(s), Append(acc, Head(s)))
         ELSE (IF acc = <<>> THEN <<>> ELSE <<acc>>)
              \o AlnumWordsFrom(Tail(s), <<>>)

\* The tokens of a query: its alphanumeric words longer than 2 characters,
\* lower-cased.
Tokens(query) ==
    SelectSeq(AlnumWordsFrom(lower(query), <<>>), LAMBDA w : Len(w) > 2)

\* With the given tokens: the chunks found are those in which a token
\* occurs, each with the score (occurrences of all tokens) / (tokens), which
\* is above 0.
ScoredBy(tokens) ==
    LET chunks == pure.arg.chunks
        matching == MatchingPositions(chunks, tokens)
    IN  /\ Len(AllFound) = Cardinality(matching)
        /\ \A i \in matching :
              \E k \in 1..Len(AllFound) :
                 /\ AllFound[k].path = chunks[i].path
                 /\ AllFound[k].text = chunks[i].text
                 /\ AllFound[k].score.num * Len(tokens) =
                       Matches(lower(chunks[i].text), tokens)
                          * AllFound[k].score.den
        /\ \A k \in 1..Len(AllFound) :
              /\ ScoreLess(ZeroScore, AllFound[k].score)
              /\ \E i \in matching : AllFound[k].text = chunks[i].text
        /\ \A k \in 1..Len(pure.ret) : ScoreLess(ZeroScore, pure.ret[k].score)

\* C23: for every query with at least one token, a chunk is a candidate of
\* search if and only if a token occurs in its lower-cased text, and its
\* score is the occurrences of all the query's tokens (a repeated token
\* counted each time) divided by the number of tokens; every returned score
\* is above 0.
C23_ScoreByTokens ==
    SearchDone /\ Tokens(pure.arg.query) # <<>> /\ pure.arg.chunks # <<>>
        => ScoredBy(Tokens(pure.arg.query))

\* The same statement over the words search extracts (underscore included).
SearchScoresByWords ==
    SearchDone /\ QueryWords(pure.arg.query) # <<>> /\ pure.arg.chunks # <<>>
        => ScoredBy(QueryWords(pure.arg.query))

\* C24: search returns the empty list whenever the query is empty or
\* whitespace-only, or has no alphanumeric word longer than 2 characters,
\* or the index holds no chunks.
C24_NothingToSearch ==
    SearchDone
    /\ \/ strip(pure.arg.query) = <<>>
       \/ Tokens(pure.arg.query) = <<>>
       \/ pure.arg.chunks = <<>>
    => pure.ret = <<>>

-----------------------------------------------------------------------------
(* The DocumentStore under reload calls, over a documents directory whose   *)
(* files change between the calls.                                          *)

\* What a.txt can be: absent, one of two texts, or a file that fails to read.
EntriesA ==
    {{},
     {Entry("a.txt", TRUE, TRUE, <<"a", "a", "a", "\n", "\n", "b">>)},
     {Entry("a.txt", TRUE, TRUE, <<"a", " ", " ", " ", " ", " ", "b">>)},
     {Entry("a.txt", TRUE, FALSE, <<"a", "b">>)}}

EntriesB ==
    {{},
     {Entry("b.md", TRUE, TRUE, <<"b", "\n", "\n", "b">>)},
     {Entry("b.md", TRUE, FALSE, <<"b">>)}}

\* A PDF whose pages give a text, or which the reader cannot open.
EntriesC ==
    {{},
     {Entry("c.PDF", TRUE, TRUE, <<"a", "a", "b">>)},
     {Entry("c.PDF", TRUE, FALSE, <<"a", "a", "b">>)}}

\* A file of an extension that is not supported, and a subdirectory.
EntriesD ==
    {{},
     {Entry("d.doc", TRUE, TRUE, <<"b">>), Entry("e", FALSE, TRUE, <<>>)}}

Roots ==
    {MissingRoot}
    \cup {Directory(a \cup b \cup c \cup d) :
             a \in EntriesA, b \in EntriesB, c \in EntriesC, d \in EntriesD}

StoreEvent(op) == [op |-> op, before |-> document_store.chunks]

InitReload ==
    /\ InitUsers("active")
    /\ InitHandlers
    /\ conversation = ConversationManager(MaxHistory)
    /\ commits = [c \in Chats |-> <<>>]
    /\ rows = {}
    /\ pure = NoCall
    /\ \E root \in Roots : InitStore(root)

\* The files of the documents directory are changed on disk.
FilesChange ==
    /\ \E root \in Roots \ {root_dir} : root_dir' = root
    /\ last' = StoreEvent("files_change")
    /\ UNCHANGED <<quiz_sessions, interactions, document_usage, tasks, requests,
                   run, finished, pure, convVars, document_store, indexed,
                   userVars, clock>>

\* store.reload()
StoreReload ==
    /\ document_store' = DocumentStore_reload(document_store, root_dir,
                                              DefaultMaxLen)
    /\ indexed' = root_dir
    /\ last' = StoreEvent("reload")
    /\ UNCHANGED <<quiz_sessions, interactions, document_usage, tasks, requests,
                   run, finished, pure, convVars, root_dir, userVars, clock>>

NextReload == FilesChange \/ StoreReload

SpecReload == InitReload /\ [][NextReload]_vars

-----------------------------------------------------------------------------
(* Claims about reload (SpecReload) *)

\* The entry is a regular file of a supported extension.
AllowedFile(e) ==
    e.is_file /\ lower_suffix(suffix(e.path)) \in SUPPORTED_EXTENSIONS

\* The non-empty chunks of a readable file, in emission order.
ExpectedFileChunks(e) ==
    IF ~e.readable THEN <<>>
    ELSE LET texts == SelectStripped(_split_into_chunks(e.text, DefaultMaxLen))
         IN  [i \in 1..Len(texts) |->
                 [path |-> e.path, text |-> texts[i], score |-> ZeroScore]]

\* The chunks of the allowed files of a directory, the files taken in the
\* ascending order of the paths given.
RECURSIVE ExpectedFrom(_, _)
ExpectedFrom(root, paths) ==
    IF paths = <<>> THEN <<>>
    ELSE LET here == {e \in root.entries : e.path = Head(paths) /\ AllowedFile(e)}
         IN  (IF here = {} THEN <<>>
              ELSE ExpectedFileChunks(CHOOSE e \in here : TRUE))
             \o ExpectedFrom(root, Tail(paths))

ExpectedIndex(root) ==
    IF ~root.exists THEN <<>> ELSE ExpectedFrom(root, PathsAscending)

\* The chunks of the index that come from the given path, in their order.
ChunksOfPath(path) ==
    SelectSeq(document_store.chunks, LAMBDA chunk : chunk.path = path)

\* C26: after reload the chunk list is the concatenation, over the readable
\* allowed-extension files under the root in ascending path order, of each
\* file's non-empty chunks in emission order; no chunk of an earlier reload
\* remains, and reloading again over the unchanged directory gives an equal
\* list.
C26_ReloadReplaces ==
    last.op = "reload" =>
        /\ document_store.chunks = ExpectedIndex(root_dir)
        /\ DocumentStore_reload(document_store, root_dir, DefaultMaxLen).chunks
              = document_store.chunks

\* A reload that dropped the chunks of a file no longer there and read two
\* files, one of them giving two chunks, next to entries it leaves out.
C26_Witness ==
    /\ last.op = "reload"
    /\ \E i \in 1..Len(last.before) :
          \A j \in 1..Len(document_store.chunks) :
             document_store.chunks[j].path # last.before[i].path
    /\ Len(ChunksOfPath("b.md")) = 1
    /\ Len(ChunksOfPath("c.PDF")) = 1
    /\ \E e \in root_dir.entries : ~AllowedFile(e)
    /\ \E i \in 1..Len(last.before) : last.before[i].path = "b.md"

\* C27: when reading a file fails during reload, reload still completes: the
\* index holds the chunks of every other readable file and no chunk of the
\* failed file; a missing root directory gives an empty index.
C27_BadFileSkipped ==
    last.op = "reload" =>
        /\ ~root_dir.exists => document_store.chunks = <<>>
        /\ \A e \in root_dir.entries :
              AllowedFile(e) =>
                 ChunksOfPath(e.path) = ExpectedFileChunks(e)

\* A reload over a directory whose first file fails to read and whose later
\* file is read, by a store that held chunks of the failing file.
C27_Witness ==
    /\ last.op = "reload"
    /\ \E e \in root_dir.entries :
          e.path = "a.txt" /\ AllowedFile(e) /\ ~e.readable
    /\ ChunksOfPath("b.md") # <<>>
    /\ ChunksOfPath("a.txt") = <<>>
    /\ \E i \in 1..Len(last.before) : last.before[i].path = "a.txt"

-----------------------------------------------------------------------------
(* The handlers that read the index (answer_text, the quiz question, the    *)
(* list of documents) with the handler that rebuilds it, over a documents   *)
(* directory that changes on disk; coroutines interleave at their awaits.   *)

\* config.admin_ids
admin_ids == {"u1"}

\* The documents directory: missing, or holding the two documents.
IndexRoots == {MissingRoot, QuizCorpus}

InitIndex ==
    /\ InitUsers("active")
    /\ InitHandlers
    /\ conversation = ConversationManager(MaxHistory)
    /\ commits = [c \in Chats |-> <<>>]
    /\ rows = {}
    /\ pure = NoCall
    /\ \E root \in IndexRoots : InitStore(root)

\* The files of the documents directory are changed on disk.
index_files_change ==
    /\ \E root \in IndexRoots \ {root_dir} : root_dir' = root
    /\ last' = [op |-> "files_change", task |-> 0]
    /\ UNCHANGED <<quiz_sessions, interactions, document_usage, tasks, requests,
                   run, finished, pure, convVars, document_store, indexed,
                   userVars, clock>>

\* reload_docs, telegram_bot.py lines 252-265: an administrator's request
\* reloads the store before the handler awaits its reply; any other user is
\* refused.  The coroutine keeps, as history, the chunk list it found.
reload_docs(t, u) ==
    /\ Arrives(t, u)
    /\ IF u \in admin_ids
       THEN /\ document_store' = DocumentStore_reload(document_store, root_dir,
                                                      DefaultMaxLen)
            /\ indexed' = root_dir
       ELSE UNCHANGED <<document_store, indexed>>
    /\ tasks' = [tasks EXCEPT ![t] =
                    [IdleTask EXCEPT !.pc = "reply", !.user = u,
                                     !.handler = "reload_docs",
                                     !.searched = document_store.chunks]]
    /\ last' = Event(IF u \in admin_ids THEN "reload" ELSE "reload_refused",
                     t, u, 0, NoReply)
    /\ UNCHANGED <<quiz_sessions, interactions, document_usage, run, finished,
                   pure, convVars, root_dir, userVars, clock>>

\* list_docs, telegram_bot.py lines 225-245: the files of the index are
\* listed before the handler awaits its reply.
list_docs(t, u) ==
    /\ Arrives(t, u)
    /\ tasks' = [tasks EXCEPT ![t] =
                    [IdleTask EXCEPT !.pc = "reply", !.user = u,
                                     !.handler = "list_docs"]]
    /\ user_data' =
          IF DocumentStore_list_files(document_store) = <<>> THEN user_data
          ELSE [user_data EXCEPT ![u].doc_options =
                   DocumentStore_list_files(document_store)]
    /\ last' = Event("list_docs", t, u, 0,
                     [kind |-> "files",
                      files |-> DocumentStore_list_files(document_store)])
    /\ UNCHANGED <<quiz_sessions, interactions, document_usage, run, finished,
                   pure, convVars, storeVars,
                   users, graded, superseded>>

\* The reply of reload_docs, list_docs or handle_document_upload is sent; the
\* handler returns.
reply_sent(t) ==
    /\ tasks[t].pc = "reply"
    /\ tasks' = [tasks EXCEPT ![t] = IdleTask]
    /\ last' = Event("reply_sent", t, tasks[t].user, 0, NoReply)
    /\ UNCHANGED <<quiz_sessions, interactions, document_usage, requests, run,
                   finished, pure, convVars, storeVars, userVars>>

\* Path(file_name).name, line 328: the last component of a path.
name(file_name) == IF file_name = "x/c.txt" THEN "c.txt" ELSE file_name

\* Lines 331-334: the stem of the path, "_", int(time.time()) and the suffix.
stem_time_suffix(path, seconds) ==
    stem(path) \o "_" \o ToString(seconds) \o suffix(path)

\* Path.exists() of a path under the documents directory.
exists(root, path) == root.exists /\ \E e \in root.entries : e.path = path

\* Lines 328-334: where the uploaded document is written.
target_path(root, file_name, seconds) ==
    IF exists(root, name(file_name))
    THEN stem_time_suffix(name(file_name), seconds)
    ELSE name(file_name)

\* download_to_drive(target_path): the file is written, in place of what the
\* path held.
download_to_drive(root, path, text) ==
    Directory({e \in root.entries : e.path # path}
              \cup {Entry(path, TRUE, TRUE, text)})

\* handle_document_upload, lines 309-335: anyone but an administrator and a
\* document of an unsupported format are refused; otherwise the target path
\* is chosen and the handler awaits get_file and download_to_drive.
handle_document_upload(t, u, document) ==
    /\ Arrives(t, u)
    /\ LET extension == lower_suffix(suffix(document.file_name))
           outcome == IF u \notin admin_ids THEN "upload_refused"
                      ELSE IF extension \notin SUPPORTED_EXTENSIONS
                      THEN "upload_unsupported"
                      ELSE "upload_begin"
       IN  /\ tasks' = [tasks EXCEPT ![t] =
                          [IdleTask EXCEPT
                              !.pc = IF outcome = "upload_begin" THEN "download"
                                     ELSE "reply",
                              !.user = u,
                              !.handler = "handle_document_upload",
                              !.upload =
                                  IF outcome = "upload_begin"
                                  THEN [path |-> target_path(root_dir,
                                                     document.file_name,
                                                     clock),
                                        text |-> document.text]
                                  ELSE IdleTask.upload]]
           /\ last' = Event(outcome, t, u, 0,
                            [kind |-> outcome,
                             extension |-> IF outcome = "upload_refused"
                                           THEN "" ELSE extension])
    /\ UNCHANGED <<quiz_sessions, interactions, document_usage, run, finished,
                   pure, convVars, storeVars, userVars>>

\* Lines 335-342: download_to_drive writes the file into the documents
\* directory and returns, and the store is reloaded before the handler
\* awaits its reply; written into a directory that does not exist the
\* download fails and the handler ends.
upload_download(t) ==
    /\ tasks[t].pc = "download"
    /\ IF root_dir.exists
       THEN /\ root_dir' = download_to_drive(root_dir, tasks[t].upload.path,
                                             tasks[t].upload.text)
            /\ document_store' =
                  DocumentStore_reload(document_store, root_dir', DefaultMaxLen)
            /\ indexed' = root_dir'
            /\ tasks' = [tasks EXCEPT ![t] =
                            [IdleTask EXCEPT
                                !.pc = "reply", !.user = tasks[t].user,
                                !.handler = "handle_document_upload"]]
            /\ last' = Event("upload", t, tasks[t].user, 0,
                             [kind |-> "uploaded",
                              path |-> tasks[t].upload.path])
       ELSE /\ UNCHANGED <<document_store, root_dir, indexed>>
            /\ tasks' = [tasks EXCEPT ![t] = IdleTask]
            /\ last' = Event("download_failed", t, tasks[t].user, 0, NoReply)
    /\ UNCHANGED <<quiz_sessions, interactions, document_usage, requests, run,
                   finished, pure, convVars, clock, userVars>>

\* A second passes.
tick ==
    /\ clock < MaxClock
    /\ clock' = clock + 1
    /\ UNCHANGED <<quizVars, pure, convVars, document_store, root_dir, indexed,
                   userVars>>

\* The documents sent: a new file, a file whose name is taken, and a file
\* of a format that is not supported.
UploadedDocuments ==
    {[file_name |-> "c.txt", text |-> <<"a", "a", "a">>],
     [file_name |-> "a.txt", text |-> <<"b", "b">>],
     [file_name |-> "d.doc", text |-> <<"a">>]}

\* The index is shared by all users: one user reads it, and both users ask
\* for a reload and send documents (u2 is no administrator).
Readers == {"u1"}

NextIndex ==
    \/ index_files_change
    \/ \E t \in Tasks, u \in Users : reload_docs(t, u)
    \/ \E t \in Tasks, u \in Readers : list_docs(t, u)
    \/ \E t \in Tasks : reply_sent(t)
    \/ \E t \in Tasks, u \in Readers : answer_text_begin(t, u)
    \/ \E t \in Tasks : answer_text_end(t)
    \/ \E t \in Tasks, u \in Readers : start_quiz(t, u)
    \/ \E t \in Tasks : send_quiz_question_begin(t)
    \/ \E t \in Tasks : send_quiz_question_end(t)

SpecIndex == InitIndex /\ [][NextIndex]_vars

\* The handlers that search and list the index, with the two that reload it:
\* reload_docs and the upload of a document (SpecUpload).
NextUpload ==
    \/ index_files_change
    \/ tick
    \/ \E t \in Tasks, u \in Users : reload_docs(t, u)
    \/ \E t \in Tasks, u \in Users, document \in UploadedDocuments :
          handle_document_upload(t, u, document)
    \/ \E t \in Tasks : upload_download(t)
    \/ \E t \in Tasks, u \in Readers : list_docs(t, u)
    \/ \E t \in Tasks : reply_sent(t)
    \/ \E t \in Tasks, u \in Readers : answer_text_begin(t, u)
    \/ \E t \in Tasks : answer_text_end(t)

SpecUpload == InitIndex /\ [][NextUpload]_vars

-----------------------------------------------------------------------------
(* Claims about the index under the handlers (SpecIndex) *)

\* The step just taken searched the index or sampled it.
IndexRead == last.op \in {"answer_text", "generate_begin"}

\* A reload_docs handler that reloaded the store is awaiting its reply.
ReloadInFlight ==
    \E t \in Tasks :
        /\ tasks[t].pc = "reply"
        /\ tasks[t].handler = "reload_docs"
        /\ tasks[t].user \in admin_ids
        /\ tasks[t].searched # document_store.chunks

\* C21: no search or sample that runs while a reload is in progress sees a
\* partially rebuilt index: what a read finds is the complete chunk list of
\* the documents directory as the last reload read it (the list from before
\* a reload until that reload has replaced it, the list from after it from
\* then on), never an empty or partly filled list in between.
C21_ReadsSeeCompleteIndex ==
    IndexRead => last.before.index = ExpectedIndex(indexed)

\* A request searched or sampled a full index of two files while the handler
\* that rebuilt it, and that had found another list, is still in flight.
C21_Witness ==
    /\ IndexRead
    /\ ReloadInFlight
    /\ Len(last.before.index) = 2
    /\ last.before.index[1].path # last.before.index[2].path

\* The step just taken belongs to a handler that reads the index: a search
\* or the end of answer_text, a sample, or the list of files.
IndexUse ==
    \/ last.op \in {"answer_text", "generate_begin", "list_docs"}
    \/ last.op = "answer_end" /\ last.reply.handler = "answer_text"

\* C25: Search, Sample, ListFiles and AnswerText never change the index: the
\* chunk list is the same afterwards, the score of every stored chunk stays
\* 0.0 (search scores fresh copies), and a second search with the same query
\* on the same index gives an equal result.
C25_ReadsLeaveIndex ==
    /\ \A i \in 1..Len(document_store.chunks) :
          document_store.chunks[i].score = ZeroScore
    /\ IndexUse => document_store.chunks = last.before.index
    /\ last.op = "answer_text" =>
          DocumentStore_search(document_store, last.reply.query,
                               DefaultLimit).result = last.reply.result

\* A search that found a chunk and gave it a score above 0 in an index of
\* two chunks.
C25_Witness ==
    /\ last.op = "answer_text"
    /\ Len(document_store.chunks) = 2
    /\ last.reply.result # <<>>
    /\ ScoreLess(ZeroScore, last.reply.result[1].score)

\* The history a chat has after the pair of a text and its reply is
\* committed to the history given.
AfterCommit(history, text) ==
    LastN(history \o <<Msg("user", text), Msg("assistant", ReplyTo(text))>>,
          2 * conversation.max_messages)

\* C30: answer_text on an empty index succeeds whenever the model call
\* succeeds: the context list it returns is empty, the system message of
\* its prompt is the base system prompt with no context block, and the
\* user/assistant pair is committed as usual.
C30_AnswerWithoutIndex ==
    /\ (last.op = "answer_text" /\ last.before.index = <<>>) =>
          /\ last.reply.result = <<>>
          /\ tasks[last.task].system = SystemPrompt
          /\ tasks[last.task].pc = "text_model_call"
    /\ (/\ last.op = "answer_end"
        /\ last.reply.handler = "answer_text"
        /\ last.reply.searched = <<>>
        /\ last.reply.kind = "reply") =>
          /\ last.reply.contexts = <<>>
          /\ last.reply.system = SystemPrompt
          /\ HistoryOf(conversation, effective_chat[last.user]) =
                AfterCommit(last.before.history, last.reply.text)
          /\ interactions[last.user] = last.before.interactions + 1
          /\ document_usage[last.user] = last.before.document_usage

\* The model replied to a text whose search ran on an empty index, in a chat
\* that already had a history.
C30_Witness ==
    /\ last.op = "answer_end"
    /\ last.reply.handler = "answer_text"
    /\ last.reply.searched = <<>>
    /\ last.reply.kind = "reply"
    /\ last.before.history # <<>>

-----------------------------------------------------------------------------
(* C39: the splitter loses and reorders nothing (SpecSplit) *)

\* The consecutive slices of max_len characters of a paragraph, the last one
\* possibly shorter.
RECURSIVE Slices(_, _)
Slices(paragraph, max_len) ==
    IF Len(paragraph) <= max_len THEN <<paragraph>>
    ELSE <<SubSeq(paragraph, 1, max_len)>> \o
         Slices(SubSeq(paragraph, max_len + 1, Len(paragraph)), max_len)

\* The non-empty stripped paragraphs of a list of paragraphs, each as its
\* slices, in order.
RECURSIVE PiecesOf(_, _)
PiecesOf(paragraphs, max_len) ==
    IF paragraphs = <<>> THEN <<>>
    ELSE (IF strip(Head(paragraphs)) = <<>> THEN <<>>
          ELSE Slices(strip(Head(paragraphs)), max_len))
         \o PiecesOf(Tail(paragraphs), max_len)

\* The pieces of the chunks, chunk after chunk.
RECURSIVE Pieces(_)
Pieces(buffers) ==
    IF buffers = <<>> THEN <<>> ELSE Head(buffers) \o Pieces(Tail(buffers))

\* C39: for every text and every max_len >= 1, the paragraph pieces of the
\* chunks, taken chunk after chunk, are exactly the non-empty stripped
\* paragraphs of the text in their order, an over-long paragraph as its
\* consecutive slices of max_len characters; no piece is lost, repeated or
\* moved, and every chunk is the join of its pieces.
C39_NothingLost ==
    SplitDone =>
        /\ Pieces(pure.ret.buffers) =
               PiecesOf(SplitParagraphs(pure.arg.text), pure.arg.max_len)
        /\ Len(pure.ret.chunks) = Len(pure.ret.buffers)
        /\ \A i \in 1..Len(pure.ret.chunks) :
              /\ pure.ret.buffers[i] # <<>>
              /\ pure.ret.chunks[i] = JoinParagraphs(pure.ret.buffers[i])

\* A text with a paragraph that stripping shortens, an over-long paragraph
\* sliced and a second paragraph, split into several chunks of which one
\* holds several pieces.
C39_Witness ==
    /\ SplitDone
    /\ \E i \in 1..Len(SplitParagraphs(pure.arg.text)) :
          /\ strip(SplitParagraphs(pure.arg.text)[i]) # <<>>
          /\ strip(SplitParagraphs(pure.arg.text)[i]) #
                 SplitParagraphs(pure.arg.text)[i]
    /\ \E i, j \in 1..Len(SplitParagraphs(pure.arg.text)) :
          /\ i # j
          /\ Len(strip(SplitParagraphs(pure.arg.text)[i])) > pure.arg.max_len
          /\ strip(SplitParagraphs(pure.arg.text)[j]) # <<>>
    /\ Len(pure.ret.buffers) >= 2
    /\ \E i \in 1..Len(pure.ret.buffers) : Len(pure.ret.buffers[i]) >= 2

-----------------------------------------------------------------------------
(* The splitter step by step (SpecSlicing): the generator's locals after    *)
(* lines 100-102, then one action per pass of its loops.  The consumer      *)
(* (reload, line 47) drains the generator in one synchronous for loop, so   *)
(* every enabled step is eventually taken.                                  *)

SlicingLocals(text) ==
    [pc |-> "for", paragraphs |-> SplitParagraphs(text), paragraph |-> <<>>,
     st |-> NoBuffer, passes |-> 0]

InitSlicing ==
    /\ InitQuiz
    /\ pure \in {[fn |-> "_split_into_chunks.steps",
                  arg |-> [text |-> t, max_len |-> m],
                  done |-> FALSE, ret |-> Null,
                  locals |-> SlicingLocals(t)] :
                    t \in SplitTexts, m \in 1..MaxCap}

Slicing == pure.fn = "_split_into_chunks.steps" /\ ~pure.done

\* Lines 113-116: the for loop takes the next paragraph and strips it; a
\* blank one is skipped.
split_next_paragraph ==
    /\ Slicing
    /\ pure.locals.pc = "for"
    /\ pure.locals.paragraphs # <<>>
    /\ LET paragraph == strip(Head(pure.locals.paragraphs))
       IN  pure' = [pure EXCEPT
                       !.locals.paragraphs = Tail(@),
                       !.locals.paragraph = paragraph,
                       !.locals.passes = 0,
                       !.locals.pc = IF paragraph = <<>> THEN "for"
                                                         ELSE "while"]
    /\ UNCHANGED <<quizVars, convVars, storeVars, userVars>>

\* Lines 117-125: one pass of the hard-slice loop.
split_slice ==
    /\ Slicing
    /\ pure.locals.pc = "while"
    /\ Len(pure.locals.paragraph) > pure.arg.max_len
    /\ LET head == SubSeq(pure.locals.paragraph, 1, pure.arg.max_len)
       IN  pure' = [pure EXCEPT
                       !.locals.paragraph = Rest(@, pure.arg.max_len),
                       !.locals.st = AddPiece(@, head, pure.arg.max_len),
                       !.locals.passes = @ + 1]
    /\ UNCHANGED <<quizVars, convVars, storeVars, userVars>>

\* Lines 126-131: the loop condition fails, the paragraph is appended.
split_append ==
    /\ Slicing
    /\ pure.locals.pc = "while"
    /\ Len(pure.locals.paragraph) <= pure.arg.max_len
    /\ pure' = [pure EXCEPT
                   !.locals.st = AddPiece(@, pure.locals.paragraph,
                                          pure.arg.max_len),
                   !.locals.pc = "for"]
    /\ UNCHANGED <<quizVars, convVars, storeVars, userVars>>

\* Lines 132-135: the paragraphs are exhausted, what is buffered is emitted
\* and the generator returns.
split_return ==
    /\ Slicing
    /\ pure.locals.pc = "for"
    /\ pure.locals.paragraphs = <<>>
    /\ LET buffers == emit(pure.locals.st).out
       IN  pure' = [pure EXCEPT
                       !.done = TRUE,
                       !.locals.pc = "returned",
                       !.ret = [chunks |-> [i \in 1..Len(buffers) |->
                                               JoinParagraphs(buffers[i])],
                                buffers |-> buffers]]
    /\ UNCHANGED <<quizVars, convVars, storeVars, userVars>>

NextSlicing ==
    \/ split_next_paragraph
    \/ split_slice
    \/ split_append
    \/ split_return

SpecSlicing == InitSlicing /\ [][NextSlicing]_vars /\ WF_vars(NextSlicing)

-----------------------------------------------------------------------------
(* C40: the splitter terminates (SpecSlicing) *)

\* The step-by-step generator returns what _split_into_chunks computes.
SlicingAgrees ==
    (pure.fn = "_split_into_chunks.steps" /\ pure.done) =>
        pure.ret.chunks = _split_into_chunks(pure.arg.text, pure.arg.max_len)

\* A pass of the hard-slice loop is being taken.
SlicePass ==
    /\ Slicing
    /\ pure.locals.pc = "while"
    /\ pure'.locals.pc = "while"
    /\ pure' # pure

\* C40: for every text and every max_len >= 1, every pass of the hard-slice
\* loop leaves a strictly shorter paragraph, and the splitter eventually
\* returns.
C40_SplitterTerminates ==
    /\ [][SlicePass =>
            Len(pure'.locals.paragraph) < Len(pure.locals.paragraph)]_vars
    /\ <>(pure.fn = "_split_into_chunks.steps" /\ pure.done)

\* The splitter has returned after slicing its last paragraph in several
\* passes.
C40_Witness ==
    /\ pure.fn = "_split_into_chunks.steps"
    /\ pure.done
    /\ pure.locals.passes >= 2
    /\ Len(pure.ret.chunks) >= 2

-----------------------------------------------------------------------------
(* C33: validation and the correct option (SpecValidate) *)

\* C33: for every accepted payload, the option stored at the stored
\* correct_index is the trimmed option the payload holds at its
\* correct_index.
C33_CorrectOptionKept ==
    (pure.fn = "ValidateQuestion" /\ pure.done /\ pure.ret.ok) =>
        pure.ret.question.options[pure.ret.question.correct_index + 1] =
            strip(Get(pure.arg.fields, "options", <<>>)
                      [Get(pure.arg.fields, "correct_index", -1) + 1])

-----------------------------------------------------------------------------
(* C34: the counters of a stored session (Spec) *)

\* C34: in every reachable state, under every interleaving of the quiz
\* handlers, every stored quiz session has
\* 0 <= correct_answers <= questions_answered.
C34_CountersOrdered ==
    \A u \in Users :
        HasSession(u) =>
            /\ 0 <= quiz_sessions[u].correct_answers
            /\ quiz_sessions[u].correct_answers <=
                   quiz_sessions[u].questions_answered

\* Two answers of one user to the same question were graded concurrently,
\* one right and one wrong, and both were counted.
C34_Witness ==
    \E u \in Users :
        /\ HasSession(u)
        /\ quiz_sessions[u].questions_answered = 2
        /\ quiz_sessions[u].correct_answers = 1
        /\ last.op = "update_quiz_stats"

-----------------------------------------------------------------------------
(* C32: a question is graded at most once (Spec) *)

\* C32: no stored question is counted twice: between any two counted
\* answers of a user the stored question has been replaced (or the session
\* cleared), whether or not generating the replacement succeeded.
C32_GradedOnce == \A u \in Users : graded[u] <= 1

-----------------------------------------------------------------------------
(* C35: Reset and the answers in flight (SpecChat) *)

\* The user message of the request numbered n in chat c, as answer_text and
\* as answer_image commit it.
IsRequest(message, c, n) ==
    IF message.role # "user" THEN FALSE
    ELSE IF "photo" \in DOMAIN message.content
         THEN message.content.photo = UserText(c, n)
         ELSE message.content = UserText(c, n)

\* The history of chat c holds the user message of the request numbered n.
HoldsRequest(c, n) ==
    IF HistoryOf(conversation, c) = <<>> THEN FALSE
    ELSE \E i \in 1..Len(HistoryOf(conversation, c)) :
            IsRequest(HistoryOf(conversation, c)[i], c, n)

\* C35: once Reset has completed for a conversation, its history holds no
\* message of a request received before the Reset: the requests that were
\* awaiting the model when the Reset ran have not put their pairs back.
C35_NoStaleCommit ==
    \A c \in Chats : \A text \in superseded[c] : ~HoldsRequest(c, text.n)

-----------------------------------------------------------------------------
(* The Conversation Window and the quiz_sessions table together: the calls  *)
(* made on the ConversationManager and on the table, in any order.          *)

NextComponents ==
    \/ NextConversation
    \/ NextTable

SpecComponents == InitConversation /\ [][NextComponents]_vars

-----------------------------------------------------------------------------
(* C31: the two components share nothing (SpecComponents) *)

ConversationOps == {"build_messages", "update", "reset"}

TableWrites == {"set_quiz_session", "clear_quiz_session", "update_quiz_stats"}

\* C31: update and reset on one conversation id leave the history of every
\* other id as it was; no call on the ConversationManager changes the
\* quiz_sessions table, and no write to the table changes a history.
C31_ComponentsIndependent ==
    [][/\ last'.op \in {"update", "reset"} =>
              \A c \in Chats \ {last'.chat} :
                  /\ HistoryOf(conversation', c) = HistoryOf(conversation, c)
                  /\ c \in DOMAIN conversation'._history <=>
                         c \in DOMAIN conversation._history
       /\ last'.op \in ConversationOps =>
              rows' = rows /\ quiz_sessions' = quiz_sessions
       /\ last'.op \in TableWrites => conversation' = conversation]_vars

\* A conversation was reset, or a pair was committed to it, while the other
\* conversation has a history and the table holds a session.
C31_Witness ==
    /\ last.op \in {"update", "reset"}
    /\ HistoryOf(last.before, last.chat) # <<>>
    /\ \E c \in Chats \ {last.chat} : HistoryOf(conversation, c) # <<>>
    /\ rows # {}

-----------------------------------------------------------------------------
(* Registration (src/telegram_bot.py): the consent buttons, the text        *)
(* handler's registration steps, and the handlers that turn away a user who *)
(* is not registered.  A message text is a sequence of characters.          *)

\* CONSENT_KEYWORDS, line 46.  A Cyrillic letter is written as its code
\* point: "U+0434", "U+0430" are the two letters of the shortest keyword.
CONSENT_KEYWORDS ==
    {<<"U+0441", "U+043E", "U+0433", "U+043B", "U+0430", "U+0441",
      "U+0435", "U+043D">>,
     <<"U+0441", "U+043E", "U+0433", "U+043B", "U+0430", "U+0441",
      "U+043D", "U+0430">>,
     <<"U+043F", "U+0440", "U+0438", "U+043D", "U+0438", "U+043C",
      "U+0430", "U+044E">>,
     <<"U+0434", "U+0430">>}

AGREE_CALLBACK == "consent_agree"
DECLINE_CALLBACK == "consent_decline"

\* str.isdigit() over the characters of the model
isdigit(s) == s # <<>> /\ \A i \in 1..Len(s) : s[i] \in {"1", "2", "3", "4"}

\* int() of a one-digit text
int(s) == CASE s = <<"1">> -> 1 [] s = <<"2">> -> 2 [] s = <<"3">> -> 3
            [] s = <<"4">> -> 4

\* Variant of _process_registration_step that takes the text sent after the
\* consent for name and profession at once.
_process_registration_step_Skip(user, text) ==
    LET clean_text == strip(text)
    IN  IF clean_text = <<>>
        THEN [state |-> user.state, response |-> "need_text"]
        ELSE IF user.state = "pending_consent"
        THEN IF lower(clean_text) \notin CONSENT_KEYWORDS
             THEN [state |-> user.state, response |-> "consent_instruction"]
             ELSE [state |-> "pending_fio", response |-> "ask_fio"]
        ELSE IF user.state \in {"pending_fio", "pending_profession"}
        THEN [state |-> "active", response |-> "completed"]
        ELSE [state |-> user.state, response |-> "processing"]

\* _process_registration_step, lines 406-429: the state the users table is
\* given and the response sent.
_process_registration_step(user, text) ==
    LET clean_text == strip(text)
    IN  IF clean_text = <<>>
        THEN [state |-> user.state, response |-> "need_text"]
        ELSE IF user.state = "pending_consent"
        THEN IF lower(clean_text) \notin CONSENT_KEYWORDS
             THEN [state |-> user.state, response |-> "consent_instruction"]
             ELSE [state |-> "pending_fio", response |-> "ask_fio"]
        ELSE IF user.state = "pending_fio"
        THEN [state |-> "pending_profession", response |-> "ask_profession"]
        ELSE IF user.state = "pending_profession"
        THEN [state |-> "active", response |-> "completed"]
        ELSE [state |-> user.state, response |-> "processing"]

\* _try_handle_doc_request, lines 358-363: the text is taken for the number
\* of a listed document.
IsDocRequest(u, text) ==
    user_data[u].doc_options # <<>> /\ isdigit(strip(text))

\* _try_handle_doc_request, lines 364-385: what is sent for the number.
DocRequestOutcome(u, text) ==
    LET idx == int(strip(text)) - 1
        doc_options == user_data[u].doc_options
    IN  IF idx < 0 \/ idx >= Len(doc_options) THEN "out_of_range"
        ELSE IF root_dir.exists
                /\ \E e \in root_dir.entries : e.path = doc_options[idx + 1]
        THEN "document"
        ELSE "not_found"

\* handle_consent_callback, lines 97-126.
handle_consent_callback(t, u, data) ==
    /\ Arrives(t, u)
    /\ users' = IF users[u].state = "pending_consent" /\ data = AGREE_CALLBACK
                THEN [users EXCEPT ![u].state = "pending_fio"]
                ELSE users
    /\ last' = Event("consent_callback", t, u, 0,
                     [kind |-> IF users[u].state # "pending_consent"
                               THEN "already_confirmed"
                               ELSE IF data = AGREE_CALLBACK THEN "ask_fio"
                               ELSE "declined",
                      data |-> data, state |-> users[u].state])
    /\ UNCHANGED <<quiz_sessions, interactions, document_usage, tasks, run,
                   finished, pure, convVars, storeVars, user_data, graded,
                   superseded>>

\* handle_text, lines 632-637, when _try_handle_doc_request takes the text.
handle_text_doc_request(t, u, text) ==
    /\ Arrives(t, u)
    /\ IsDocRequest(u, text)
    /\ last' = Event("doc_request", t, u, 0,
                     [kind |-> DocRequestOutcome(u, text), text |-> text,
                      state |-> users[u].state])
    /\ UNCHANGED <<quiz_sessions, interactions, document_usage, tasks, run,
                   finished, pure, convVars, storeVars, userVars>>

\* handle_text, lines 632-646, for a user who is not registered: the
\* registration step.
handle_text_registration(t, u, text) ==
    /\ Arrives(t, u)
    /\ ~IsDocRequest(u, text)
    /\ ~is_active(users[u])
    /\ LET step == _process_registration_step(users[u], text)
       IN  /\ users' = [users EXCEPT ![u].state = step.state]
           /\ last' = Event("registration_step", t, u, 0,
                            [kind |-> step.response, text |-> text,
                             state |-> users[u].state])
    /\ UNCHANGED <<quiz_sessions, interactions, document_usage, tasks, run,
                   finished, pure, convVars, storeVars, user_data, graded,
                   superseded>>

\* handle_text, lines 632-650, for a registered user who sends one of the
\* digits 1-4: _try_handle_quiz_answer, lines 609-629, into
\* _handle_quiz_answer_selection, lines 483-515.
handle_text_quiz_answer(t, u, text) ==
    /\ Arrives(t, u)
    /\ ~IsDocRequest(u, text)
    /\ is_active(users[u])
    /\ strip(text) \in {<<"1">>, <<"2">>, <<"3">>, <<"4">>}
    /\ LET chosen_index == int(strip(text)) - 1
           session == get_quiz_session(quiz_sessions, u)
           outcome == AnswerOutcome(session, chosen_index)
           pc == AnswerNextPc(outcome)
           correct_delta ==
               IF outcome = "graded" /\ chosen_index = session.correct_index
               THEN 1 ELSE 0
           total_answers ==
               IF outcome = "graded" THEN session.questions_answered + 1 ELSE 0
           total_correct ==
               IF outcome = "graded"
               THEN session.correct_answers + correct_delta ELSE 0
       IN  /\ tasks' = [tasks EXCEPT ![t] =
                          IF pc = "idle" THEN IdleTask
                          ELSE [IdleTask EXCEPT
                                   !.pc = pc, !.user = u,
                                   !.handler = "quiz_answer",
                                   !.session = session,
                                   !.correct_delta = correct_delta,
                                   !.reported = <<total_correct, total_answers>>]]
           /\ last' = Event("quiz_answer", t, u, chosen_index,
                            [kind |-> outcome, correct |-> correct_delta = 1,
                             total_correct |-> total_correct,
                             total_answers |-> total_answers,
                             text |-> text])
    /\ run' = IF Busy(u) THEN [run EXCEPT ![u] = NoRun] ELSE run
    /\ UNCHANGED <<quiz_sessions, interactions, document_usage, finished, pure,
                   convVars, storeVars, userVars>>

\* start_quiz, lines 286-295, for a user who is not registered.
start_quiz_refused(t, u) ==
    /\ Arrives(t, u)
    /\ ~is_active(users[u])
    /\ last' = Event("start_quiz_refused", t, u, 0,
                     [kind |-> "refused", state |-> users[u].state])
    /\ UNCHANGED <<quiz_sessions, interactions, document_usage, tasks, run,
                   finished, pure, convVars, storeVars, userVars>>

\* handle_voice, lines 672-682, and handle_photo, lines 727-737, for a user
\* who is not registered.
handle_media_refused(t, u, kind) ==
    /\ Arrives(t, u)
    /\ ~is_active(users[u])
    /\ last' = Event(kind, t, u, 0,
                     [kind |-> "refused", state |-> users[u].state])
    /\ UNCHANGED <<quiz_sessions, interactions, document_usage, tasks, run,
                   finished, pure, convVars, storeVars, userVars>>

-----------------------------------------------------------------------------
(* The handlers around registration (SpecRegistration).  The users table    *)
(* outlives the process, so the bot starts with its user at any step of the *)
(* registration; user_data and the tasks start empty.                       *)

RegistrationStates ==
    {"pending_consent", "pending_fio", "pending_profession", "active"}

\* The user who sends the updates.
Registrants == {"u1"}

\* The texts sent: the consent keyword capitalised with a trailing blank, a
\* name, a blank text, and digits.
RegistrationTexts ==
    {<<"U+0414", "U+0430", " ">>, <<"n", "o">>, <<" ">>, <<"1">>, <<" ", "4">>}

InitRegistration ==
    /\ InitHandlers
    /\ users \in [Users -> {BotUser(s) : s \in RegistrationStates}]
    /\ \A u \in Users \ Registrants : users[u].state = "pending_consent"
    /\ user_data = [u \in Users |-> NoUserData]
    /\ graded = [u \in Users |-> 0]
    /\ superseded = [c \in Chats |-> {}]
    /\ conversation = ConversationManager(MaxHistory)
    /\ commits = [c \in Chats |-> <<>>]
    /\ rows = {}
    /\ InitStore(QuizCorpus)
    /\ pure = NoCall

NextRegistration ==
    \/ \E t \in Tasks, u \in Registrants,
          data \in {AGREE_CALLBACK, DECLINE_CALLBACK} :
          handle_consent_callback(t, u, data)
    \/ \E t \in Tasks, u \in Registrants, text \in RegistrationTexts :
          handle_text_doc_request(t, u, text)
    \/ \E t \in Tasks, u \in Registrants, text \in RegistrationTexts :
          handle_text_registration(t, u, text)
    \/ \E t \in Tasks, u \in Registrants, text \in RegistrationTexts :
          handle_text_quiz_answer(t, u, text)
    \/ \E t \in Tasks, u \in Registrants : start_quiz_refused(t, u)
    \/ \E t \in Tasks, u \in Registrants, kind \in {"voice", "photo"} :
          handle_media_refused(t, u, kind)
    \/ \E t \in Tasks, u \in Registrants : start_quiz(t, u)
    \/ \E t \in Tasks : send_quiz_question_begin(t)
    \/ \E t \in Tasks : send_quiz_question_end(t)
    \/ \E t \in Tasks, u \in Registrants, i \in ChosenIndices :
          quiz_answer_read(t, u, i)
    \/ \E t \in Tasks : quiz_answer_update(t)
    \/ \E t \in Tasks, u \in Registrants : quiz_finish_read(t, u)
    \/ \E t \in Tasks : quiz_finish_clear(t)
    \/ \E t \in Tasks, u \in Registrants : list_docs(t, u)
    \/ \E t \in Tasks : reply_sent(t)
    \/ \E t \in Tasks, u \in Registrants : answer_text_begin(t, u)
    \/ \E t \in Tasks : answer_text_end(t)
    \/ \E t \in Tasks, u \in Registrants : answer_image_begin(t, u)
    \/ \E t \in Tasks : answer_image_encode(t)
    \/ \E t \in Tasks : answer_image_end(t)
    \/ \E t \in Tasks, u \in Registrants : reset(t, u)

SpecRegistration == InitRegistration /\ [][NextRegistration]_vars

-----------------------------------------------------------------------------
(* Only registered users reach the model and the quiz (SpecRegistration).   *)

\* A coroutine stands at, or on the way to, a call of the model.
CallsModel(t) ==
    tasks[t].pc \in {"model_call", "send_question", "text_model_call",
                     "image_encode", "image_model_call"}

\* C37: no model call is issued and no quiz session is stored for a user
\* whose state is not active: every coroutine at a model call, every model
\* call made (quiz generation, AnswerText, AnswerImage) and every stored quiz
\* session belongs to a user whose state is active.
C37_OnlyActiveUsersServed ==
    /\ \A t \in Tasks :
          CallsModel(t) => users[tasks[t].user].state = "active"
    /\ last.op \in {"generate_begin", "generate_end", "answer_text",
                    "answer_image", "answer_end", "start_quiz",
                    "set_quiz_session"}
          => users[last.user].state = "active"
    /\ \A u \in Users :
          quiz_sessions[u] # NoSession => users[u].state = "active"

\* A quiz answer by button from a user who is not registered: there is no
\* session to grade, and nothing is generated.
C37_Witness ==
    /\ last.op = "quiz_answer"
    /\ users[last.user].state \in
          {"pending_consent", "pending_fio", "pending_profession"}
    /\ last.reply.kind = "no_session"
    /\ \A t \in Tasks : ~CallsModel(t)
    /\ requests >= 2

-----------------------------------------------------------------------------
(* Registration moves forward one step at a time (SpecRegistration).        *)

\* The step after a registration state; active is the last.
NextRegistrationState(state) ==
    CASE state = "pending_consent" -> "pending_fio"
      [] state = "pending_fio" -> "pending_profession"
      [] state = "pending_profession" -> "active"
      [] state = "active" -> "active"

\* The step just taken gave consent: the agree button, or a text that is a
\* consent keyword once stripped and lowered.
ConsentGiven ==
    \/ last'.op = "consent_callback" /\ last'.reply.data = AGREE_CALLBACK
    \/ /\ last'.op = "registration_step"
       /\ lower(strip(last'.reply.text)) \in CONSENT_KEYWORDS

\* The step just taken is an input to the registration of user u.
RegistrationInput(u) ==
    /\ last'.op \in {"consent_callback", "registration_step"}
    /\ last'.user = u
    /\ last' # last

\* C36: a user's registration state only moves forward along pending_consent,
\* pending_fio, pending_profession, active, one step per accepted input:
\* every change of a state is one step forward made by a registration input
\* of that user, active is never left, pending_consent is left only when
\* consent is given, and the decline button and any other text leave
\* pending_consent unchanged.
C36_RegistrationForward ==
    [][\A u \in Users :
          /\ users'[u] # users[u]
                => /\ users[u].state # "active"
                   /\ users'[u].state = NextRegistrationState(users[u].state)
                   /\ RegistrationInput(u)
                   /\ users[u].state = "pending_consent" => ConsentGiven
          /\ (RegistrationInput(u) /\ users[u].state = "pending_consent"
                                   /\ ~ConsentGiven)
                => users'[u] = users[u]
          /\ users[u].state = "active" => users'[u].state = "active"]_vars

\* The consent keyword, in capitals and with a trailing blank, has moved a
\* user from pending_consent to pending_fio, after an earlier update had
\* left the state unchanged.
C36_Witness ==
    /\ last.op = "registration_step"
    /\ last.reply.state = "pending_consent"
    /\ last.reply.text = <<"U+0414", "U+0430", " ">>
    /\ users[last.user].state = "pending_fio"
    /\ requests >= 2

-----------------------------------------------------------------------------
(* A digit sent as text during a quiz (SpecRegistration).                   *)

\* The last step handled a text message, and the text was a digit 1-4.
DigitText ==
    IF last.op = "doc_request" THEN isdigit(strip(last.reply.text))
    ELSE IF last.op = "quiz_answer" /\ "text" \in DOMAIN last.reply
    THEN isdigit(strip(last.reply.text))
    ELSE FALSE

\* C38: while an active user has a stored quiz session, a text message that
\* is one of the digits 1-4 is graded as the answer with index digit - 1 to
\* the current question, whatever commands the user issued before.
C38_DigitIsGraded ==
    (DigitText /\ users[last.user].state = "active"
               /\ last.before.session # NoSession)
       => /\ last.op = "quiz_answer"
          /\ last.reply.kind = "graded"
          /\ last.chosen_index = int(strip(last.reply.text)) - 1

====
